---- MODULE Spec2Model ----
(***************************************************************************)
(* zapping-node: the time-expression resolver (TimeParser), the CLI and    *)
(* the interactive time prompt that call it.                               *)
(*                                                                         *)
(* Instants are JavaScript Date values: integer milliseconds.  They are    *)
(* counted from 2024-06-01T00:00:00 local time (a Saturday) instead of     *)
(* from 1970 so that they fit TLC's integers; that origin is a whole       *)
(* number of seconds, so Math.floor(getTime() / 1000) differs from the     *)
(* model's value by a constant only.  The local time zone has a fixed      *)
(* offset (no daylight-saving change inside the modelled window).          *)
(* Strings are sequences of tokens: a word, or the whitespace token " ".   *)
(***************************************************************************)
EXTENDS Integers, Sequences, FiniteSets, TLC

VARIABLES
    clock,        \* wall clock: what new Date() / Date.now() returns
    ticks,        \* how often the clock advanced (bounded by MaxTicks)
    pc,           \* position of the running parseTimeExpression call
    expression,   \* its argument
    chronoArg,    \* the text it handed to chrono.parse, or NoCall
    results,      \* what chrono.parse returned
    now,          \* the `now` read at constants.ts:43
    descNow,      \* the `now` read at constants.ts:67
    accepted,     \* the date accepted at :44-58, waiting for its description
    path,         \* "direct" | "shifted" | "none"
    result,       \* the value returned (ParsedTime | null), or NoResult
    cli,          \* runCLI: options, position, token, output, exit code
    ui,           \* ZappingUI: token, channels, dialogs, position
    player,       \* PlayerService: its fields and what it asked of the outside
    calls         \* TimeParser calls made from logical threads: each one's locals

vars == <<clock, ticks, pc, expression, chronoArg, results, now, descNow, accepted, path, result,
          cli, ui, player, calls>>

----------------------------------------------------------------------------
(* Units of time, in milliseconds.                                         *)

MsPerSecond == 1000
MinutesPerHour == 60
HoursPerDay == 24
DaysPerWeek == 7
MsPerMinute == 1000 * 60
MsPerHour == MsPerMinute * 60
MsPerDay == MsPerHour * 24

(* Bounds of the model.                                                    *)
MaxTicks == 2
MaxCandidates == 2

(* The calendar: day 0 is Saturday 2024-06-01, every modelled instant lies *)
(* in June 2024.                                                           *)
At(day, h, m) == day * MsPerDay + h * MsPerHour + m * MsPerMinute
DayOf(d) == d \div MsPerDay
TimeOfDay(d) == d % MsPerDay
getHours(d) == TimeOfDay(d) \div MsPerHour
getMinutes(d) == (TimeOfDay(d) % MsPerHour) \div MsPerMinute
getDay(d) == (DayOf(d) + 6) % 7       \* 0 = Sunday ... 6 = Saturday
getDate(d) == DayOf(d) + 1            \* day of the month (June)

(* Date.prototype.setDate: same local clock time on another day.           *)
setDate(d, dayOfMonth) == (dayOfMonth - 1) * MsPerDay + TimeOfDay(d)

NoCall == <<"<chrono.parse not called>">>
None == 0 - 1
NoResult == [kind |-> "none"]
null == [kind |-> "null"]
TypeError == [kind |-> "TypeError"]

----------------------------------------------------------------------------
(* String.prototype.trim on token sequences.                               *)

IsSpace(tok) == tok = " "

RECURSIVE trimStart(_)
trimStart(s) == IF s # <<>> /\ IsSpace(Head(s)) THEN trimStart(Tail(s)) ELSE s

RECURSIVE trimEnd(_)
trimEnd(s) ==
    IF s # <<>> /\ IsSpace(s[Len(s)]) THEN trimEnd(SubSeq(s, 1, Len(s) - 1)) ELSE s

trim_Identity(s) == s

trim(s) == trimEnd(trimStart(s))

----------------------------------------------------------------------------
(* TimeParser.getExamples: the Examples Catalog, in catalog order.         *)

getExamples ==
    << <<"2", " ", "hours", " ", "ago">>,
       <<"30", " ", "minutes", " ", "ago">>,
       <<"1", " ", "day", " ", "ago">>,
       <<"yesterday", " ", "at", " ", "3pm">>,
       <<"yesterday", " ", "15:30">>,
       <<"last", " ", "friday", " ", "at", " ", "9am">>,
       <<"tuesday", " ", "at", " ", "noon">>,
       <<"3", " ", "days", " ", "ago", " ", "at", " ", "2pm">>,
       <<"this", " ", "morning", " ", "at", " ", "8am">>,
       <<"last", " ", "night", " ", "at", " ", "10pm">> >>

Catalog == {getExamples[i] : i \in 1..Len(getExamples)}

(* Any other expression: what the grammar makes of it is not fixed.        *)
Other == <<"<expression>">>
(* Text in which the grammar finds no date.                                *)
Noise == <<"asdf">>

(* The inputs: empty, whitespace only, the catalog, the catalog padded     *)
(* with whitespace, and other expressions.                                 *)
Exprs ==
    {<<>>, <<" ">>, <<" ", " ">>, Other, <<" ">> \o Other \o <<" ">>, Noise}
        \cup Catalog
        \cup {<<" ">> \o getExamples[4], getExamples[1] \o <<" ">>}

----------------------------------------------------------------------------
(* chrono.parse(text), the natural-language grammar (chrono-node, called   *)
(* at constants.ts:29 with its default reference, the current time, and    *)
(* without the forwardDate option).  It returns the candidates in order    *)
(* of confidence; `ref` is the clock it read.                              *)

FRIDAY == 5
TUESDAY == 2

(* chrono's weekday arithmetic: days from the reference day to a weekday.  *)
getDaysForwardToWeekday(ref, weekday) == (weekday - getDay(ref) + 7) % 7
getBackwardDaysToWeekday(ref, weekday) ==
    IF weekday >= getDay(ref) THEN weekday - 7 - getDay(ref) ELSE weekday - getDay(ref)
getDaysToWeekdayClosest(ref, weekday) ==
    LET backward == getBackwardDaysToWeekday(ref, weekday)
        forward == getDaysForwardToWeekday(ref, weekday)
    IN  IF forward < -backward THEN forward ELSE backward

(* Where an expression other than the catalog's may land, relative to the  *)
(* reference: the past (to beyond a week), the present and the future (to  *)
(* beyond the one-day window).                                             *)
CandidateOffsets ==
    { -(8 * MsPerDay), -(7 * MsPerDay), -(7 * MsPerDay) + 1, -(2 * MsPerDay),
      -MsPerDay, -(21 * MsPerHour), -MsPerHour, -MsPerHour + 1, -1500, -MsPerMinute,
      0, 1, MsPerHour, MsPerDay, MsPerDay + 1, 2 * MsPerDay }
LaterOffsets == { -MsPerHour, 2 * MsPerDay }

RECURSIVE Rankings(_, _)
Rankings(ref, n) ==
    IF n = 0 THEN {<<>>}
    ELSE IF n = 1 THEN {<<>>} \cup {<<ref + o>> : o \in CandidateOffsets}
    ELSE LET shorter == Rankings(ref, n - 1)
         IN  shorter \cup {r \o <<ref + o>> : r \in {x \in shorter : Len(x) = n - 1},
                                              o \in LaterOffsets}

chrono_parse(text, ref) ==
    LET today == DayOf(ref) IN
    CASE text = getExamples[1] -> {<<ref - 2 * MsPerHour>>}
      [] text = getExamples[2] -> {<<ref - 30 * MsPerMinute>>}
      [] text = getExamples[3] -> {<<setDate(ref, getDate(ref) - 1)>>}
      [] text = getExamples[4] -> {<<At(today - 1, 15, 0)>>}
      [] text = getExamples[5] -> {<<At(today - 1, 15, 30)>>}
      [] text = getExamples[6] -> {<<At(today + getBackwardDaysToWeekday(ref, FRIDAY), 9, 0)>>}
      [] text = getExamples[7] -> {<<At(today + getDaysToWeekdayClosest(ref, TUESDAY), 12, 0)>>}
      [] text = getExamples[8] -> {<<At(today - 3, 14, 0)>>}
      [] text = getExamples[9] -> {<<At(today, 8, 0)>>}
      [] text = getExamples[10] -> {<<At(today, 22, 0)>>, <<At(today - 1, 22, 0)>>}
      [] text = Noise -> {<<>>}
      [] OTHER -> Rankings(ref, MaxCandidates)

----------------------------------------------------------------------------
(* TimeParser.formatTime / formatDate: toLocaleTimeString and              *)
(* toLocaleDateString with 'en-US', as sequences of text fragments.        *)

Digit == <<"0", "1", "2", "3", "4", "5", "6", "7", "8", "9">>
TwoDigit(n) == <<Digit[(n \div 10) + 1], Digit[(n % 10) + 1]>>
WeekdayShort == <<"Sun", "Mon", "Tue", "Wed", "Thu", "Fri", "Sat">>

formatTime_24h(date) ==
    <<ToString(getHours(date)), ":">> \o TwoDigit(getMinutes(date))

formatTime(date) ==
    LET h == getHours(date)
        h12 == IF h % 12 = 0 THEN 12 ELSE h % 12
    IN  <<ToString(h12), ":">> \o TwoDigit(getMinutes(date))
            \o <<" ", IF h < 12 THEN "AM" ELSE "PM">>

formatDate(date) ==
    <<WeekdayShort[getDay(date) + 1], ", ", "Jun", " ", ToString(getDate(date)), ", ">>
        \o formatTime(date)

(* TimeParser.generateDescription.  `nowRead` is its own new Date().       *)
diffMinutesOf(parsedDate, nowRead) == (nowRead - parsedDate) \div (MsPerSecond * 60)
diffHoursOf_RoundedUp(parsedDate, nowRead) ==
    (diffMinutesOf(parsedDate, nowRead) + MinutesPerHour - 1) \div MinutesPerHour

diffHoursOf(parsedDate, nowRead) == diffMinutesOf(parsedDate, nowRead) \div MinutesPerHour
diffDaysOf(parsedDate, nowRead) == diffHoursOf(parsedDate, nowRead) \div HoursPerDay

Plural_Always(n) == "s"

Plural(n) == IF n # 1 THEN "s" ELSE ""

generateDescription_Trimmed(originalExpression, parsedDate, nowRead) ==
    LET diffMinutes == diffMinutesOf(parsedDate, nowRead)
        diffHours == diffHoursOf(parsedDate, nowRead)
        diffDays == diffDaysOf(parsedDate, nowRead)
    IN  IF diffMinutes < MinutesPerHour
            THEN <<ToString(diffMinutes), " minute", Plural(diffMinutes), " ago">>
        ELSE IF diffHours < HoursPerDay
            THEN <<ToString(diffHours), " hour", Plural(diffHours), " ago">>
        ELSE IF diffDays < DaysPerWeek
            THEN IF diffDays = 1
                     THEN <<"yesterday at ">> \o formatTime(parsedDate)
                     ELSE <<ToString(diffDays), " day", Plural(diffDays), " ago at ">>
                              \o formatTime(parsedDate)
        ELSE trim(originalExpression) \o <<" (">> \o formatDate(parsedDate) \o <<")">>

generateDescription_Inclusive(originalExpression, parsedDate, nowRead) ==
    LET diffMinutes == diffMinutesOf(parsedDate, nowRead)
        diffHours == diffHoursOf(parsedDate, nowRead)
        diffDays == diffDaysOf(parsedDate, nowRead)
    IN  IF diffMinutes <= MinutesPerHour
            THEN <<ToString(diffMinutes), " minute", Plural(diffMinutes), " ago">>
        ELSE IF diffHours <= HoursPerDay
            THEN <<ToString(diffHours), " hour", Plural(diffHours), " ago">>
        ELSE IF diffDays <= DaysPerWeek
            THEN IF diffDays = 1
                     THEN <<"yesterday at ">> \o formatTime(parsedDate)
                     ELSE <<ToString(diffDays), " day", Plural(diffDays), " ago at ">>
                              \o formatTime(parsedDate)
        ELSE originalExpression \o <<" (">> \o formatDate(parsedDate) \o <<")">>

generateDescription_NoneForZero(originalExpression, parsedDate, nowRead) ==
    LET diffMinutes == diffMinutesOf(parsedDate, nowRead)
        diffHours == diffHoursOf(parsedDate, nowRead)
        diffDays == diffDaysOf(parsedDate, nowRead)
    IN  IF diffMinutes < MinutesPerHour
            THEN IF diffMinutes = 0 THEN <<"">>
                 ELSE <<ToString(diffMinutes), " minute", Plural(diffMinutes), " ago">>
        ELSE IF diffHours < HoursPerDay
            THEN <<ToString(diffHours), " hour", Plural(diffHours), " ago">>
        ELSE IF diffDays < DaysPerWeek
            THEN IF diffDays = 1
                     THEN <<"yesterday at ">> \o formatTime(parsedDate)
                     ELSE <<ToString(diffDays), " day", Plural(diffDays), " ago at ">>
                              \o formatTime(parsedDate)
        ELSE originalExpression \o <<" (">> \o formatDate(parsedDate) \o <<")">>

generateDescription_CalendarDay(originalExpression, parsedDate, nowRead) ==
    LET diffMinutes == diffMinutesOf(parsedDate, nowRead)
        diffHours == diffHoursOf(parsedDate, nowRead)
        diffDays == DayOf(nowRead) - DayOf(parsedDate)
    IN  IF diffMinutes < MinutesPerHour
            THEN <<ToString(diffMinutes), " minute", Plural(diffMinutes), " ago">>
        ELSE IF diffDays < 1
            THEN <<ToString(diffHours), " hour", Plural(diffHours), " ago">>
        ELSE IF diffDays < DaysPerWeek
            THEN IF diffDays = 1
                     THEN <<"yesterday at ">> \o formatTime(parsedDate)
                     ELSE <<ToString(diffDays), " day", Plural(diffDays), " ago at ">>
                              \o formatTime(parsedDate)
        ELSE originalExpression \o <<" (">> \o formatDate(parsedDate) \o <<")">>

generateDescription(originalExpression, parsedDate, nowRead) ==
    LET diffMinutes == diffMinutesOf(parsedDate, nowRead)
        diffHours == diffHoursOf(parsedDate, nowRead)
        diffDays == diffDaysOf(parsedDate, nowRead)
    IN  IF diffMinutes < MinutesPerHour
            THEN <<ToString(diffMinutes), " minute", Plural(diffMinutes), " ago">>
        ELSE IF diffHours < HoursPerDay
            THEN <<ToString(diffHours), " hour", Plural(diffHours), " ago">>
        ELSE IF diffDays < DaysPerWeek
            THEN IF diffDays = 1
                     THEN <<"yesterday at ">> \o formatTime(parsedDate)
                     ELSE <<ToString(diffDays), " day", Plural(diffDays), " ago at ">>
                              \o formatTime(parsedDate)
        ELSE originalExpression \o <<" (">> \o formatDate(parsedDate) \o <<")">>

----------------------------------------------------------------------------
(* TimeParser.parseTimeExpression, in the pieces its clock reads separate. *)

(* :22-24  trim and the empty check.                                       *)
IsEmpty(trimmed) == trimmed = <<>>

(* :36  results[0]: undefined when the array has no such element.          *)
undefined == [kind |-> "undefined"]
ElementAt(rs, i) ==
    IF i + 1 \in 1..Len(rs) THEN [kind |-> "result", date |-> rs[i + 1]] ELSE undefined

(* :31-40  the first result's date; null when there is none.  Calling      *)
(* .date() on undefined would throw a TypeError.                           *)
FirstCandidate_Unguarded(rs) ==
    LET first == ElementAt(rs, 0)
    IN  IF first = undefined THEN TypeError ELSE [kind |-> "date", date |-> first.date]

FirstCandidate_Last(rs) ==
    IF Len(rs) = 0 THEN null
    ELSE LET last == ElementAt(rs, Len(rs) - 1)
         IN  IF last = undefined THEN null ELSE [kind |-> "date", date |-> last.date]

FirstCandidate(rs) ==
    IF Len(rs) = 0 THEN null
    ELSE LET first == ElementAt(rs, 0)
         IN  IF first = undefined THEN null ELSE [kind |-> "date", date |-> first.date]

(* :44  parsedDate > now                                                   *)
IsFuture_Never(parsedDate, nowRead) == FALSE

IsFuture(parsedDate, nowRead) == parsedDate > nowRead

(* :47-48  new Date(parsedDate), setDate(getDate() - 1)                    *)
dayBeforeOf_TwoDays(parsedDate) == setDate(parsedDate, getDate(parsedDate) - 2)

dayBeforeOf(parsedDate) == setDate(parsedDate, getDate(parsedDate) - 1)

(* :50  dayBefore <= now                                                   *)
IsRescued_Unchecked(dayBefore, nowRead) == TRUE

IsRescued(dayBefore, nowRead) == dayBefore <= nowRead

(* :51, :60  Math.floor(date.getTime() / 1000)                             *)
timestampOf_Rounded(date) == (date + 500) \div MsPerSecond

timestampOf(date) == date \div MsPerSecond

(* :44-58  which date is accepted, if any.                                 *)
Accept_KeepsCandidate(parsedDate, nowRead) ==
    IF IsFuture(parsedDate, nowRead)
        THEN IF IsRescued(dayBeforeOf(parsedDate), nowRead)
                 THEN [path |-> "shifted", date |-> parsedDate]
                 ELSE [path |-> "rejected", date |-> None]
        ELSE [path |-> "direct", date |-> parsedDate]

Accept(parsedDate, nowRead) ==
    IF IsFuture(parsedDate, nowRead)
        THEN IF IsRescued(dayBeforeOf(parsedDate), nowRead)
                 THEN [path |-> "shifted", date |-> dayBeforeOf(parsedDate)]
                 ELSE [path |-> "rejected", date |-> None]
        ELSE [path |-> "direct", date |-> parsedDate]

ParsedTime(date, description) ==
    [kind |-> "ParsedTime", timestamp |-> timestampOf(date),
     description |-> description, date |-> date]

(* The whole call, for callers that run it in one step: `rs` is what       *)
(* chrono.parse returns for the trimmed text, nowRead the clock at :43,    *)
(* descRead the clock at :67.                                              *)
parseTimeExpression(expr, rs, nowRead, descRead) ==
    IF IsEmpty(trim(expr)) THEN null
    ELSE LET c == FirstCandidate(rs)
         IN  IF c.kind # "date" THEN c
             ELSE LET a == Accept(c.date, nowRead)
                  IN  IF a.path = "rejected" THEN null
                      ELSE ParsedTime(a.date, generateDescription(expr, a.date, descRead))

(* :108-110  validateTimeExpression: parseTimeExpression(...) !== null     *)
validateTimeExpression_Always(parsed) == TRUE

validateTimeExpression(parsed) == parsed # null

----------------------------------------------------------------------------
(* Calls of TimeParser from several logical threads of control.  All the   *)
(* methods are static and the class has no fields: what a call works on is *)
(* its own frame, the parameters and the locals of :21-63.                 *)

Threads == {"a", "b"}
Entries == {"parseTimeExpression", "validateTimeExpression"}
NoText == <<"<no description>">>

Frame ==
    [pc |-> "idle",           \* idle | parsed | describe | done
     entry |-> "none",        \* the public method that was called
     expression |-> <<>>,
     results |-> <<>>,
     now |-> None,            \* the clock read at :43
     descNow |-> None,        \* the clock read at :67
     accepted |-> None,       \* parsedDate or dayBefore
     result |-> NoResult,     \* what parseTimeExpression returns
     returned |-> NoResult,   \* what the called method returns
     again |-> NoText,        \* generateDescription on the same date, once more
     againNow |-> None]       \* the clock it read

NoCalls == [t \in Threads |-> Frame]

Boolean(b) == [kind |-> "boolean", value |-> b]

(* The return of parseTimeExpression, through validateTimeExpression when  *)
(* that was the method called.                                             *)
returning(c, value) ==
    [c EXCEPT !.pc = "done", !.result = value,
              !.returned = IF c.entry = "validateTimeExpression"
                             THEN Boolean(validateTimeExpression(value))
                             ELSE value]

(* :21-40  up to the first result's date; `rs` is what chrono.parse gave.  *)
entered(entry, e, rs) ==
    LET c == [Frame EXCEPT !.entry = entry, !.expression = e] IN
    IF IsEmpty(trim(e)) THEN returning(c, null)
    ELSE IF FirstCandidate(rs).kind = "date"
           THEN [c EXCEPT !.results = rs, !.pc = "parsed"]
           ELSE returning([c EXCEPT !.results = rs], FirstCandidate(rs))

(* :43-58  `now`, the future check, the day before.                        *)
futureChecked(c, clk) ==
    LET a == Accept(FirstCandidate(c.results).date, clk)
        d == [c EXCEPT !.now = clk, !.accepted = a.date]
    IN  IF a.path = "rejected" THEN returning(d, null) ELSE [d EXCEPT !.pc = "describe"]

(* :51-53, :60-63 with :66-87  timestamp, description, return.             *)
described_SharedDate(c, clk) ==
    LET waiting == {calls[u].accepted : u \in {v \in Threads : calls[v].pc = "describe"}}
        shared == CHOOSE d \in waiting : \A o \in waiting : d >= o
    IN  returning([c EXCEPT !.descNow = clk],
                  ParsedTime(shared, generateDescription(c.expression, shared, clk)))

described(c, clk) ==
    returning([c EXCEPT !.descNow = clk],
              ParsedTime(c.accepted, generateDescription(c.expression, c.accepted, clk)))

(* :66-87  generateDescription applied again to the same expression and    *)
(* date.                                                                   *)
describedAgain_FirstNow(c, clk) ==
    [c EXCEPT !.again = generateDescription(c.expression, c.accepted, c.now),
              !.againNow = clk]

describedAgain(c, clk) ==
    [c EXCEPT !.again = generateDescription(c.expression, c.accepted, clk),
              !.againNow = clk]

----------------------------------------------------------------------------
(* The resolver as a state machine: one call of parseTimeExpression, the   *)
(* clock advancing between its reads.                                      *)

NowDays == 8..14
NowTimes == {At(0, 6, 0), At(0, 12, 0), At(0, 23, 30) + 15750}
(* How long the clock may advance between two reads: a millisecond, an     *)
(* hour, or a week (the process suspended), up to LastInstant.             *)
TickSteps == {1, MsPerHour, DaysPerWeek * MsPerDay}
LastInstant == At(22, 0, 0)
ScenarioNow == At(14, 12, 0)        \* Saturday 2024-06-15 12:00:00

InitOthers ==
    /\ cli = [pc |-> "off"]
    /\ ui = [pc |-> "off"]
    /\ player = [stage |-> "off"]
    /\ calls = NoCalls

InitResolver ==
    /\ clock \in {day * MsPerDay + t : day \in NowDays, t \in NowTimes}
    /\ ticks = 0
    /\ pc = "idle"
    /\ expression = <<>>
    /\ chronoArg = NoCall
    /\ results = <<>>
    /\ now = None
    /\ descNow = None
    /\ accepted = None
    /\ path = "none"
    /\ result = NoResult

Init == InitResolver /\ InitOthers

(* Time passes while the call runs.                                        *)
Tick ==
    /\ pc \in {"parsed", "describe"}
    /\ ticks < MaxTicks
    /\ \E d \in TickSteps : clock <= LastInstant - d /\ clock' = clock + d
    /\ ticks' = ticks + 1
    /\ UNCHANGED <<pc, expression, chronoArg, results, now, descNow, accepted, path, result,
                   cli, ui, player, calls>>

(* :21-40  the call up to the first result's date.                         *)
Call ==
    /\ pc = "idle"
    /\ \E e \in Exprs :
        /\ expression' = e
        /\ IF IsEmpty(trim(e))
             THEN /\ chronoArg' = NoCall
                  /\ results' = <<>>
                  /\ result' = null
                  /\ pc' = "done"
             ELSE \E rs \in chrono_parse(trim(e), clock) :
                  /\ chronoArg' = trim(e)
                  /\ results' = rs
                  /\ IF FirstCandidate(rs).kind = "date"
                       THEN pc' = "parsed" /\ result' = result
                       ELSE pc' = "done" /\ result' = FirstCandidate(rs)
    /\ UNCHANGED <<clock, ticks, now, descNow, accepted, path, cli, ui, player, calls>>

(* :43-58  read now, keep the date, shift it one day back or give up.      *)
ReadNow ==
    /\ pc = "parsed"
    /\ now' = clock
    /\ LET a == Accept(FirstCandidate(results).date, clock)
       IN  /\ path' = a.path
           /\ accepted' = a.date
           /\ IF a.path = "rejected"
                THEN pc' = "done" /\ result' = null
                ELSE pc' = "describe" /\ result' = result
    /\ UNCHANGED <<clock, ticks, expression, chronoArg, results, descNow, cli, ui, player,
                   calls>>

(* :51-53, :60-63 with :66-87  the timestamp, the description (which reads *)
(* the clock again) and the return.                                        *)
Describe ==
    /\ pc = "describe"
    /\ descNow' = clock
    /\ result' = ParsedTime(accepted, generateDescription(expression, accepted, clock))
    /\ pc' = "done"
    /\ UNCHANGED <<clock, ticks, expression, chronoArg, results, now, accepted, path, cli, ui,
                   player, calls>>

Next == Tick \/ Call \/ ReadNow \/ Describe

Spec == Init /\ [][Next]_vars

----------------------------------------------------------------------------
(* The resolver called in one step by runCLI and ZappingUI: every value it *)
(* may return for `expr` when chrono.parse reads the clock at `clk`, with  *)
(* the clock value at which it returns.                                    *)

Elapsed == {0, 1}

GrammarOutputs(expr, clk) ==
    IF IsEmpty(trim(expr)) THEN {<<>>} ELSE chrono_parse(trim(expr), clk)

Resolutions(expr, clk) ==
    {[value |-> parseTimeExpression(expr, rs, clk + d1, clk + d1 + d2),
      end |-> clk + d1 + d2] :
        rs \in GrammarOutputs(expr, clk), d1 \in Elapsed, d2 \in Elapsed}

(* A JavaScript value in a condition: undefined, null and "" are falsy.    *)
NoOpt == <<"<undefined>">>
NoToken == <<"<null>">>
Truthy(v) == v # NoOpt /\ v # NoToken /\ v # <<>>

----------------------------------------------------------------------------
(* Channels.  Names, numbers and queries are sequences of characters.      *)

Channels ==
    {[number |-> 13, name |-> <<"C", "1", "3">>],
     [number |-> 7, name |-> <<"T", "V", "N">>]}

LowerCaseOf(ch) ==
    CASE ch = "C" -> "c" [] ch = "T" -> "t" [] ch = "V" -> "v" [] ch = "N" -> "n"
      [] OTHER -> ch
toLowerCase(str) == [i \in 1..Len(str) |-> LowerCaseOf(str[i])]

toStringOf(n) ==
    IF n < 10 THEN <<Digit[n + 1]>> ELSE <<Digit[(n \div 10) + 1], Digit[(n % 10) + 1]>>

includes(str, part) ==
    \E i \in 0..(Len(str) - Len(part)) : SubSeq(str, i + 1, i + Len(part)) = part

(* Object.values(...).sort((a, b) => a.number - b.number)                  *)
RECURSIVE sortByNumber(_)
sortByNumber(chs) ==
    IF chs = {} THEN <<>>
    ELSE LET first == CHOOSE c \in chs : \A o \in chs : c.number <= o.number
         IN  <<first>> \o sortByNumber(chs \ {first})

(* channels.find(ch => name includes query || number === query)            *)
matchesQuery(ch, query) ==
    includes(toLowerCase(ch.name), query) \/ toStringOf(ch.number) = query

findChannel(chs, query) ==
    LET hits == {i \in 1..Len(chs) : matchesQuery(chs[i], query)}
    IN  IF hits = {} THEN undefined
        ELSE chs[CHOOSE i \in hits : \A j \in hits : i <= j]

----------------------------------------------------------------------------
(* PlayerService (auth.ts:166-348).                                        *)

MaxHeartbeats == 2
MaxPlays == 2
NoTime == 0 - 1
PlayTokens == {<<"p", "t">>, <<>>}

(* A timestamp as the JavaScript number it is: seconds since 1970, where   *)
(* the instants here are counted from 2024-06-01.                          *)
EpochSeconds == 19875 * 86400
UnixSeconds(timestamp) == timestamp + EpochSeconds

(* :222  if (endTime): undefined and the number 0 are falsy.               *)
TruthyNumber(n) == n # NoTime /\ UnixSeconds(n) # 0

(* :189, :221-224  the stream URL: channel.url with its query parameters.  *)
NoUrl == [token |-> NoToken, startTime |-> NoTime, endTime |-> NoTime]
liveUrl(playToken) == [token |-> playToken, startTime |-> NoTime, endTime |-> NoTime]
timeUrl(playToken, startTime, endTime) ==
    [token |-> playToken, startTime |-> startTime,
     endTime |-> IF TruthyNumber(endTime) THEN endTime ELSE NoTime]

PlayerIdle ==
    [stage |-> "idle",            \* idle | awaitToken | awaitMpv
     playToken |-> NoToken,
     heartbeatInterval |-> FALSE, \* a setInterval timer is held
     timers |-> 0,                \* setInterval timers set and not cleared
     mpvProcess |-> FALSE,        \* a spawned mpv is held
     promise |-> "none",          \* of the running play call: pending | resolved | rejected
     startTime |-> NoTime,        \* its startTime argument (NoTime: live)
     endTime |-> NoTime,          \* its endTime argument (NoTime: not given)
     url |-> NoUrl,               \* the stream URL last handed to mpv
     tokenRequests |-> 0,         \* getDrHousePlayToken calls made
     heartbeats |-> 0,            \* heartbeat requests sent
     pendingBeats |-> 0,          \* heartbeat requests not yet answered
     spawns |-> 0,                \* mpv processes spawned
     earlier |-> <<>>,            \* play calls made before the running one
     events |-> <<>>]             \* what the object did since the latest call, in order

(* :177-186, :204-218  the call, up to the pending play-token request:     *)
(* playChannel(channel, token) when startTime is NoTime, otherwise         *)
(* playChannelAtTime(channel, token, startTime), as its two callers call   *)
(* it: without endTime.                                                    *)
playStarted(p, startTime) ==
    [p EXCEPT !.stage = "awaitToken", !.promise = "pending", !.startTime = startTime,
              !.endTime = NoTime, !.tokenRequests = @ + 1, !.events = <<"call">>]

(* :294-308  cleanup                                                       *)
cleanup(p) ==
    [p EXCEPT !.timers = IF p.heartbeatInterval THEN @ - 1 ELSE @,
              !.heartbeatInterval = FALSE, !.mpvProcess = FALSE, !.playToken = NoToken]

(* :271-281  startHeartbeat, with the first sendHeartbeat (:283-292)       *)
startHeartbeat(p) ==
    IF ~Truthy(p.playToken) THEN p
    ELSE [p EXCEPT !.heartbeats = @ + 1, !.pendingBeats = @ + 1,
                   !.heartbeatInterval = TRUE, !.timers = @ + 1,
                   !.events = Append(@, "heartbeat")]

(* :186-196, :218-233, :241-255  the play token arrives: the stream URL,   *)
(* the heartbeat, the mpv process.                                         *)
playTokenReceived_LiveUrl(p, playToken) ==
    LET q == startHeartbeat([p EXCEPT !.playToken = playToken,
                                      !.events = Append(@, "token")])
    IN  [q EXCEPT !.url = liveUrl(playToken),
                  !.mpvProcess = TRUE, !.spawns = @ + 1, !.stage = "awaitMpv",
                  !.events = Append(@, "spawn")]

playTokenReceived(p, playToken) ==
    LET q == startHeartbeat([p EXCEPT !.playToken = playToken,
                                      !.events = Append(@, "token")])
    IN  [q EXCEPT !.url = IF p.startTime = NoTime
                            THEN liveUrl(playToken)
                            ELSE timeUrl(playToken, p.startTime, p.endTime),
                  !.mpvProcess = TRUE, !.spawns = @ + 1, !.stage = "awaitMpv",
                  !.events = Append(@, "spawn")]

(* :197-201, :234-238  the play-token request fails.                       *)
playTokenFailed(p) ==
    [cleanup(p) EXCEPT !.stage = "idle", !.promise = "rejected",
                       !.events = Append(@, "tokenFailed")]

(* :257-261  mpv 'close'                                                   *)
mpvClosed(p) == [cleanup(p) EXCEPT !.stage = "idle", !.promise = "resolved"]

(* :263-267 with :234-238  mpv 'error'                                     *)
mpvFailed(p) == [cleanup(p) EXCEPT !.stage = "idle", !.promise = "rejected"]

PlayTokenResponse ==
    /\ player.stage = "awaitToken"
    /\ \/ \E t \in PlayTokens : player' = playTokenReceived(player, t)
       \/ player' = playTokenFailed(player)
    /\ UNCHANGED <<clock, ticks, pc, expression, chronoArg, results, now, descNow, accepted,
                   path, result, cli, ui, calls>>

MpvExit ==
    /\ player.stage = "awaitMpv"
    /\ \/ player' = mpvClosed(player)
       \/ player' = mpvFailed(player)
    /\ UNCHANGED <<clock, ticks, pc, expression, chronoArg, results, now, descNow, accepted,
                   path, result, cli, ui, calls>>

(* :278-280 with :283-292  the interval fires.                             *)
HeartbeatTimer ==
    /\ player.timers > 0
    /\ player.heartbeats < MaxHeartbeats
    /\ player' = IF Truthy(player.playToken)
                   THEN [player EXCEPT !.heartbeats = @ + 1, !.pendingBeats = @ + 1,
                                       !.events = Append(@, "heartbeat")]
                   ELSE player
    /\ player' # player
    /\ UNCHANGED <<clock, ticks, pc, expression, chronoArg, results, now, descNow, accepted,
                   path, result, cli, ui, calls>>

(* :286-291  the heartbeat request is answered: nothing on success, a log  *)
(* line on failure.                                                        *)
heartbeatFailed_Cleans(p) ==
    [cleanup(p) EXCEPT !.pendingBeats = @ - 1, !.events = Append(@, "heartbeatFailed")]

heartbeatFailed(p) ==
    [p EXCEPT !.pendingBeats = @ - 1, !.events = Append(@, "heartbeatFailed")]

heartbeatDone(p) == [p EXCEPT !.pendingBeats = @ - 1]

HeartbeatResponse ==
    /\ player.pendingBeats > 0
    /\ \/ player' = heartbeatDone(player)
       \/ player' = heartbeatFailed(player)
    /\ UNCHANGED <<clock, ticks, pc, expression, chronoArg, results, now, descNow, accepted,
                   path, result, cli, ui, calls>>

----------------------------------------------------------------------------
(* runCLI (index.ts:638-746).                                              *)

NoFile == <<"<no file>">>
SavedToken == <<"t", "k">>
ExitNone == 0 - 1

CliChannelQueries == {<<"t", "v">>, <<"1", "3">>, <<"9">>}
CliTimes == {<<>>, <<" ">>, getExamples[1], getExamples[7], Noise}
CliClocks == {ScenarioNow, At(10, 6, 0)}

(* AuthService.authenticate (auth.ts:14-157) as its caller's state.       *)
NoResponse == [status |-> "none", token |-> NoToken]
AuthIdle ==
    [pc |-> "idle",            \* idle | awaitCode | awaitEnter | awaitLinked | awaitTimer
                               \* | awaitKey | done
     configBefore |-> NoFile,  \* the config file when authenticate was entered
     savedToken |-> NoToken,   \* what loadToken returned (:16)
     linked |-> NoResponse,    \* what checkCodeLinked returned, or that it threw
     saved |-> <<>>,           \* the tokens given to saveToken
     keyPressed |-> FALSE,     \* the key that ends the error display (:140-146)
     outcome |-> "none",       \* none | returned | thrown
     value |-> NoToken]        \* the token returned

InitCLI ==
    /\ clock \in CliClocks
    /\ ticks = 0
    /\ pc = "off"
    /\ expression = <<>>
    /\ chronoArg = NoCall
    /\ results = <<>>
    /\ now = None
    /\ descNow = None
    /\ accepted = None
    /\ path = "none"
    /\ result = NoResult
    /\ ui = [pc |-> "off"]
    /\ player = [stage |-> "off"]
    /\ calls = NoCalls
    /\ \E examples \in BOOLEAN, list \in BOOLEAN,
          channel \in {NoOpt} \cup CliChannelQueries,
          time \in {NoOpt} \cup CliTimes,
          config \in {NoFile, <<>>, SavedToken} :
          cli = [pc |-> "start",
                 options |-> [examples |-> examples, list |-> list,
                              channel |-> channel, time |-> time],
                 config |-> config,
                 token |-> NoToken,
                 auth |-> AuthIdle,
                 channel |-> undefined,
                 resolverArg |-> NoCall,
                 parsedTime |-> NoResult,
                 stdout |-> <<>>,
                 stderr |-> <<>>,
                 exitCode |-> ExitNone]

(* process.exit(code), or runCLI returning.                                *)
exited(c, code) == [c EXCEPT !.pc = "ended", !.exitCode = code]
printed(c, line) == [c EXCEPT !.stdout = Append(@, line)]
complained(c, line) == [c EXCEPT !.stderr = Append(@, line)]

(* ConfigService.loadToken (config.ts:11-22): the trimmed file, or null    *)
(* when there is no file or it cannot be read.                             *)
loadToken(config, readable) ==
    IF config = NoFile \/ ~readable THEN NoToken ELSE trim(config)

(* :686-692  the token check and the channel-list request.                 *)
tokenChecked(c, token) ==
    IF ~Truthy(token)
        THEN exited(complained([c EXCEPT !.token = token], <<"Authentication failed">>), 1)
        ELSE [c EXCEPT !.token = token, !.pc = "channels"]

(* :659-663  console.log of the heading and of one line per example.       *)
exampleLine_MarkerOnly(example) == <<"  - ">>

exampleLine(example) == <<"  - ">> \o example

examplesOutput ==
    <<<<"Supported time expressions:">>>>
        \o [i \in 1..Len(getExamples) |-> exampleLine(getExamples[i])]

(* :657-692  --examples, then the saved token or the start of the          *)
(* activation.                                                             *)
CliStart ==
    /\ cli.pc = "start"
    /\ IF cli.options.examples
         THEN cli' = exited([cli EXCEPT !.stdout = examplesOutput], 0)
                 /\ player' = player
              ELSE /\ player' = PlayerIdle
                   /\ IF cli.config = NoFile
                        THEN cli' = [cli EXCEPT !.pc = "auth"]
                        ELSE \E readable \in BOOLEAN :
                                 cli' = tokenChecked(cli, loadToken(cli.config, readable))
    /\ UNCHANGED <<clock, ticks, pc, expression, chronoArg, results, now, descNow, accepted,
                   path, result, ui, calls>>

(* The activation server's answers to check-linked, and what               *)
(* ApiService.checkCodeLinked makes of them (api.ts:70-122): the status    *)
(* and token, or an error thrown.                                          *)
NewToken == <<"n", "e", "w">>
ApiError == [status |-> "thrown", token |-> NoToken]
LinkResponses ==
    {[status |-> "true", token |-> NewToken],
     [status |-> "true", token |-> <<>>],
     [status |-> "false", token |-> NoToken],
     [status |-> "unreachable", token |-> NoToken]}

checkCodeLinked(response) ==
    IF response.status # "true" THEN ApiError
    ELSE IF ~Truthy(response.token) THEN ApiError
    ELSE [status |-> response.status, token |-> response.token]

(* config.ts:24-33  saveToken                                              *)
saveToken(c, token) == [c EXCEPT !.config = token, !.auth.saved = Append(@, token)]

(* index.ts:680-692  authenticate returns to runCLI.                       *)
authReturned(c, token) ==
    tokenChecked([c EXCEPT !.auth.pc = "done", !.auth.outcome = "returned",
                           !.auth.value = token], token)

(* index.ts:741-745  authenticate throws to runCLI.                        *)
authThrown(c) ==
    exited(complained([c EXCEPT !.auth.pc = "done", !.auth.outcome = "thrown"],
                      <<"Error:">>), 1)

(* auth.ts:123-139  the catch block up to its wait for a key.              *)
authFailed(c) == [c EXCEPT !.auth.pc = "awaitKey"]

(* auth.ts:15-45  authenticate is entered; `file` is the config file as    *)
(* loadToken finds it.                                                     *)
authCalled(c, file, readable) ==
    LET savedToken == loadToken(file, readable)
        d == [c EXCEPT !.config = file, !.auth.configBefore = file,
                       !.auth.savedToken = savedToken]
    IN  IF Truthy(savedToken) THEN authReturned(d, savedToken)
        ELSE [d EXCEPT !.auth.pc = "awaitCode"]

(* auth.ts:88-121  checkCodeLinked has answered.                           *)
codeChecked_NoSave(c, r) ==
    LET d == [c EXCEPT !.auth.linked = r] IN
    IF r = ApiError THEN authFailed(d)
    ELSE IF r.status = "true" /\ Truthy(r.token)
      THEN [d EXCEPT !.auth.pc = "awaitTimer", !.auth.value = r.token]
    ELSE authFailed(d)

codeChecked(c, r) ==
    LET d == [c EXCEPT !.auth.linked = r] IN
    IF r = ApiError THEN authFailed(d)
    ELSE IF r.status = "true" /\ Truthy(r.token)
      THEN [saveToken(d, r.token) EXCEPT !.auth.pc = "awaitTimer", !.auth.value = r.token]
    ELSE authFailed(d)

(* index.ts:673-681 with auth.ts:15-21  runCLI found no config file and    *)
(* calls authenticate; another instance may have written the file by the   *)
(* time loadToken reads it.                                                *)
AuthCall ==
    /\ cli.pc = "auth"
    /\ cli.auth.pc = "idle"
    /\ \E file \in {cli.config, <<>>, SavedToken}, readable \in BOOLEAN :
           cli' = authCalled(cli, file, readable)
    /\ UNCHANGED <<clock, ticks, pc, expression, chronoArg, results, now, descNow, accepted,
                   path, result, ui, player, calls>>

(* auth.ts:47-62  getActivationCode answers or throws.                     *)
AuthCode ==
    /\ cli.auth.pc = "awaitCode"
    /\ \/ cli' = [cli EXCEPT !.auth.pc = "awaitEnter"]
       \/ cli' = authFailed(cli)
    /\ UNCHANGED <<clock, ticks, pc, expression, chronoArg, results, now, descNow, accepted,
                   path, result, ui, player, calls>>

(* auth.ts:64-86  the user presses return.                                 *)
AuthEnter ==
    /\ cli.auth.pc = "awaitEnter"
    /\ cli' = [cli EXCEPT !.auth.pc = "awaitLinked"]
    /\ UNCHANGED <<clock, ticks, pc, expression, chronoArg, results, now, descNow, accepted,
                   path, result, ui, player, calls>>

AuthLinked ==
    /\ cli.auth.pc = "awaitLinked"
    /\ \E response \in LinkResponses : cli' = codeChecked(cli, checkCodeLinked(response))
    /\ UNCHANGED <<clock, ticks, pc, expression, chronoArg, results, now, descNow, accepted,
                   path, result, ui, player, calls>>

(* auth.ts:107-113  the two seconds are over: the token is returned.       *)
AuthTimer ==
    /\ cli.auth.pc = "awaitTimer"
    /\ cli' = authReturned(cli, cli.auth.value)
    /\ UNCHANGED <<clock, ticks, pc, expression, chronoArg, results, now, descNow, accepted,
                   path, result, ui, player, calls>>

(* auth.ts:140-155  any key: the error is thrown again.                    *)
AuthKey ==
    /\ cli.auth.pc = "awaitKey"
    /\ cli' = authThrown([cli EXCEPT !.auth.keyPressed = TRUE])
    /\ UNCHANGED <<clock, ticks, pc, expression, chronoArg, results, now, descNow, accepted,
                   path, result, ui, player, calls>>

(* :680-692, :741-745  authenticate returns the new token or throws.       *)
CliAuthenticated ==
    /\ cli.pc = "auth"
    /\ \/ cli' = tokenChecked([cli EXCEPT !.config = SavedToken], SavedToken)
       \/ cli' = exited(complained(cli, <<"Error:">>), 1)
    /\ UNCHANGED <<clock, ticks, pc, expression, chronoArg, results, now, descNow, accepted,
                   path, result, ui, player, calls>>

(* :692-745  the channel list arrives (or the request fails): --list,      *)
(* --channel with or without --time, or the TUI.                           *)
CliChannels ==
    /\ cli.pc = "channels"
    /\ \/ /\ cli' = exited(complained(cli, <<"Error:">>), 1)
          /\ UNCHANGED <<clock, player>>
       \/ LET channels == sortByNumber(Channels) IN
          IF cli.options.list
            THEN /\ cli' = exited([cli EXCEPT !.stdout =
                         <<<<"Available channels:">>>>
                             \o [i \in 1..Len(channels) |->
                                    <<"  ">> \o toStringOf(channels[i].number) \o <<": ">>
                                        \o channels[i].name]], 0)
                 /\ UNCHANGED <<clock, player>>
          ELSE IF Truthy(cli.options.channel)
            THEN LET channel == findChannel(channels, toLowerCase(cli.options.channel)) IN
                 IF channel = undefined
                   THEN /\ cli' = exited(complained(complained(cli,
                                     <<"Channel not found: ">> \o cli.options.channel),
                                     <<"Use --list to see available channels">>), 1)
                        /\ UNCHANGED <<clock, player>>
                 ELSE IF Truthy(cli.options.time)
                   THEN \E r \in Resolutions(cli.options.time, clock) :
                        LET c == [cli EXCEPT !.channel = channel,
                                             !.resolverArg = cli.options.time,
                                             !.parsedTime = r.value]
                        IN  /\ clock' = r.end
                            /\ IF r.value = null
                                 THEN /\ cli' = exited(complained(complained(c,
                                              <<"Invalid time expression: ">> \o cli.options.time),
                                              <<"Use --examples to see supported formats">>), 1)
                                      /\ player' = player
                                 ELSE /\ cli' = [printed(c, <<"Playing ">> \o channel.name
                                                     \o <<": ">> \o r.value.description)
                                                 EXCEPT !.pc = "play"]
                                      /\ player' = playStarted(player, r.value.timestamp)
                   ELSE /\ cli' = [printed([cli EXCEPT !.channel = channel],
                                       <<"Playing ">> \o channel.name \o <<": Live">>)
                                   EXCEPT !.pc = "play"]
                        /\ player' = playStarted(player, NoTime)
                        /\ clock' = clock
            ELSE /\ cli' = [cli EXCEPT !.pc = "tui"]
                 /\ UNCHANGED <<clock, player>>
    /\ UNCHANGED <<ticks, pc, expression, chronoArg, results, now, descNow, accepted,
                   path, result, ui, calls>>

(* :728-734, :741-745  the play call settles.                              *)
CliPlayed ==
    /\ cli.pc = "play"
    /\ player.promise \in {"resolved", "rejected"}
    /\ cli' = IF player.promise = "resolved"
                THEN exited(cli, 0)
                ELSE exited(complained(cli, <<"Error:">>), 1)
    /\ player' = [player EXCEPT !.promise = "none"]
    /\ UNCHANGED <<clock, ticks, pc, expression, chronoArg, results, now, descNow, accepted,
                   path, result, ui, calls>>

NextCLI ==
    \/ CliStart
    \/ CliAuthenticated
    \/ CliChannels
    \/ CliPlayed
    \/ (cli.pc = "play" /\ PlayTokenResponse)
    \/ (cli.pc = "play" /\ MpvExit)
    \/ (cli.pc = "play" /\ HeartbeatTimer)
    \/ (cli.pc = "play" /\ HeartbeatResponse)

SpecCLI == InitCLI /\ [][NextCLI]_vars

(* runCLI with the steps of authenticate, up to the channel-list request.  *)
NextAuth ==
    \/ CliStart
    \/ AuthCall
    \/ AuthCode
    \/ AuthEnter
    \/ AuthLinked
    \/ AuthTimer
    \/ AuthKey

SpecAuth == InitCLI /\ [][NextAuth]_vars

----------------------------------------------------------------------------
(* ZappingUI (index.ts:13-635): start, the channel list, the playback-mode *)
(* dialog, the time-input dialog and the two play methods.                 *)

MaxSelections == 2
MaxSearch == 1
SearchKeys == {"t", " "}
TimeInputs ==
    {<<>>, <<" ">>, getExamples[1], getExamples[7], Noise, <<" ">> \o getExamples[4]}

UiConstructed ==
    [pc |-> "start",          \* start | loading | browse | checkMpv | playing | initError
     token |-> NoToken,
     channels |-> <<>>,
     filteredChannels |-> <<>>,
     items |-> <<>>,          \* the rows of the channel list widget
     search |-> <<>>,         \* the value of the search box
     dialog |-> "none",       \* none | mode | time
     channel |-> undefined,   \* the channel the open dialog or play call is for
     mode |-> "none",         \* of the running play call: live | time
     afterLoad |-> "none",    \* showError pending behind an awaited loadChannels
     submitted |-> NoOpt,     \* the last value submitted in the time dialog
     parsedTime |-> NoResult, \* what parseTimeExpression returned for it
     errorShown |-> FALSE,    \* an error box is on the screen
     errorCount |-> 0,        \* showError calls
     submits |-> 0,
     selections |-> 0]

InitTUI ==
    /\ clock \in CliClocks
    /\ ticks = 0
    /\ pc = "off"
    /\ expression = <<>>
    /\ chronoArg = NoCall
    /\ results = <<>>
    /\ now = None
    /\ descNow = None
    /\ accepted = None
    /\ path = "none"
    /\ result = NoResult
    /\ cli = [pc |-> "off"]
    /\ player = PlayerIdle
    /\ ui = UiConstructed
    /\ calls = NoCalls

(* :542-564  showError                                                     *)
showError(u) == [u EXCEPT !.errorShown = TRUE, !.errorCount = @ + 1]

(* :88-186  createMainUI: a new search box and an empty channel list.      *)
createMainUI(u) ==
    [u EXCEPT !.items = <<>>, !.search = <<>>, !.dialog = "none", !.errorShown = FALSE]

(* :258-260  a row: the number padded to three places, " - ", the name.    *)
padStart3(str) == [i \in 1..(3 - Len(str)) |-> " "] \o str
rowOf(channel) == padStart3(toStringOf(channel.number)) \o <<" ", "-", " ">> \o channel.name

(* :255-265  updateChannelList                                             *)
updateChannelList(u) ==
    [u EXCEPT !.items = [i \in 1..Len(u.filteredChannels) |-> rowOf(u.filteredChannels[i])]]

(* :240-253  filterChannels                                                *)
termOf(searchTerm) == trim(toLowerCase(searchTerm))
matchesTerm(channel, term) ==
    includes(toLowerCase(channel.name), term) \/ includes(toStringOf(channel.number), term)
filtered(chs, term) ==
    IF term = <<>> THEN chs
    ELSE LET Hit(channel) == matchesTerm(channel, term) IN SelectSeq(chs, Hit)

filterChannels(u, searchTerm) ==
    updateChannelList([u EXCEPT !.filteredChannels = filtered(u.channels, termOf(searchTerm))])

(* :58-86  handleDirectTyping: a printable character, or backspace.        *)
typed(u, ch) ==
    LET newValue == u.search \o <<ch>>
    IN  filterChannels([u EXCEPT !.search = newValue], newValue)

backspaced(u) ==
    IF u.search = <<>> THEN u
    ELSE LET newValue == SubSeq(u.search, 1, Len(u.search) - 1)
         IN  filterChannels([u EXCEPT !.search = newValue], newValue)

(* :43-50 with :268-274  escape with a search text: clearSearch.           *)
clearSearch(u) == filterChannels([u EXCEPT !.search = <<>>], <<>>)

(* :188-197  loadChannels up to its await: nothing without a token.        *)
loadChannels(u, whenDone) ==
    IF ~Truthy(u.token) THEN [u EXCEPT !.pc = "browse"]
    ELSE [u EXCEPT !.pc = "loading", !.afterLoad = whenDone]

(* :566-633  start: the saved token or the activation, the main UI, the    *)
(* channel-list request; an error box when the activation throws.          *)
UiStart ==
    /\ ui.pc = "start"
    /\ \/ \E token \in {NoToken, <<>>, SavedToken} :
              ui' = loadChannels(createMainUI([ui EXCEPT !.token = token]), "none")
       \/ ui' = [ui EXCEPT !.pc = "initError"]
    /\ UNCHANGED <<clock, ticks, pc, expression, chronoArg, results, now, descNow, accepted,
                   path, result, cli, player, calls>>

(* :197-214, with :496 when playChannelAtTime waits for it to show its     *)
(* error.                                                                  *)
UiChannelsLoaded ==
    /\ ui.pc = "loading"
    /\ LET loaded == [ui EXCEPT !.channels = sortByNumber(Channels),
                                !.filteredChannels = sortByNumber(Channels)]
       IN  \E ok \in BOOLEAN :
           LET u == IF ok THEN updateChannelList(loaded) ELSE ui
               v == [u EXCEPT !.pc = "browse", !.afterLoad = "none"]
           IN  ui' = IF ui.afterLoad = "showError" THEN showError(v) ELSE v
    /\ UNCHANGED <<clock, ticks, pc, expression, chronoArg, results, now, descNow, accepted,
                   path, result, cli, player, calls>>

(* :52-55  a key reaches the screen while the main UI is up and no text    *)
(* box is reading input.                                                   *)
SearchBoxUp == ui.pc \in {"loading", "browse"} /\ ui.dialog = "none"

UiType ==
    /\ SearchBoxUp
    /\ Len(ui.search) < MaxSearch
    /\ \E ch \in SearchKeys : ui' = typed(ui, ch)
    /\ UNCHANGED <<clock, ticks, pc, expression, chronoArg, results, now, descNow, accepted,
                   path, result, cli, player, calls>>

UiBackspace ==
    /\ SearchBoxUp
    /\ ui.search # <<>>
    /\ ui' = backspaced(ui)
    /\ UNCHANGED <<clock, ticks, pc, expression, chronoArg, results, now, descNow, accepted,
                   path, result, cli, player, calls>>

UiClearSearch ==
    /\ SearchBoxUp
    /\ ui.search # <<>>
    /\ ui' = clearSearch(ui)
    /\ UNCHANGED <<clock, ticks, pc, expression, chronoArg, results, now, descNow, accepted,
                   path, result, cli, player, calls>>

(* :232-237 with :276-367  'select' on the channel list opens the          *)
(* playback-mode dialog for filteredChannels[index].                       *)
UiSelectChannel ==
    /\ ui.pc = "browse"
    /\ ui.dialog = "none"
    /\ ui.selections < MaxSelections
    /\ \E index \in 1..Len(ui.items) :
        LET channel == IF index \in 1..Len(ui.filteredChannels)
                         THEN ui.filteredChannels[index] ELSE undefined
        IN  ui' = IF channel = undefined
                    THEN [ui EXCEPT !.selections = @ + 1]
                    ELSE [ui EXCEPT !.selections = @ + 1, !.dialog = "mode",
                                    !.channel = channel]
    /\ UNCHANGED <<clock, ticks, pc, expression, chronoArg, results, now, descNow, accepted,
                   path, result, cli, player, calls>>

(* :456-464, :500-508  a play method up to its first await: nothing        *)
(* without a token, else checkMpvAvailable.                                *)
playRequested(u, mode) ==
    IF ~Truthy(u.token) THEN u ELSE [u EXCEPT !.pc = "checkMpv", !.mode = mode]

(* :347-359  'select' in the mode dialog: Live or Time.                    *)
UiSelectMode ==
    /\ ui.pc = "browse"
    /\ ui.dialog = "mode"
    /\ \E index \in {0, 1} :
        ui' = IF index = 0
                THEN playRequested([ui EXCEPT !.dialog = "none"], "live")
                ELSE [ui EXCEPT !.dialog = "time"]
    /\ UNCHANGED <<clock, ticks, pc, expression, chronoArg, results, now, descNow, accepted,
                   path, result, cli, player, calls>>

(* :361-364, :448-451  escape in a dialog.                                 *)
UiEscape ==
    /\ ui.pc = "browse"
    /\ ui.dialog \in {"mode", "time"}
    /\ ui' = [ui EXCEPT !.dialog = "none"]
    /\ UNCHANGED <<clock, ticks, pc, expression, chronoArg, results, now, descNow, accepted,
                   path, result, cli, player, calls>>

(* :426-446  'submit' in the time dialog; `r` is what parseTimeExpression  *)
(* returns when it is called.                                              *)
timeSubmitted_KeepsPrompt(u, value, r) ==
    LET v == [u EXCEPT !.submits = @ + 1, !.submitted = value, !.parsedTime = NoResult] IN
    IF IsEmpty(trim(value)) THEN showError(v)
    ELSE IF r = null THEN showError([v EXCEPT !.parsedTime = r])
    ELSE playRequested([v EXCEPT !.parsedTime = r, !.dialog = "none"], "time")

timeSubmitted(u, value, r) ==
    LET v == [u EXCEPT !.submits = @ + 1, !.submitted = value, !.parsedTime = NoResult] IN
    IF IsEmpty(trim(value)) THEN [v EXCEPT !.dialog = "none"]
    ELSE IF r = null THEN [showError([v EXCEPT !.parsedTime = r]) EXCEPT !.dialog = "none"]
    ELSE playRequested([v EXCEPT !.parsedTime = r, !.dialog = "none"], "time")

UiSubmitTime ==
    /\ ui.pc = "browse"
    /\ ui.dialog = "time"
    /\ \E value \in TimeInputs :
        IF IsEmpty(trim(value))
          THEN ui' = timeSubmitted(ui, value, NoResult) /\ clock' = clock
          ELSE \E r \in Resolutions(trim(value), clock) :
                   ui' = timeSubmitted(ui, value, r.value) /\ clock' = r.end
    /\ UNCHANGED <<ticks, pc, expression, chronoArg, results, now, descNow, accepted,
                   path, result, cli, player, calls>>

(* :561-563  the error box goes away.                                      *)
UiErrorGone ==
    /\ ui.errorShown
    /\ ui' = [ui EXCEPT !.errorShown = FALSE]
    /\ UNCHANGED <<clock, ticks, pc, expression, chronoArg, results, now, descNow, accepted,
                   path, result, cli, player, calls>>

(* :464-475, :508-518  checkMpvAvailable answers: an error box, or the     *)
(* screen goes and PlayerService is called.                                *)
UiMpvChecked ==
    /\ ui.pc = "checkMpv"
    /\ \/ /\ ui' = showError([ui EXCEPT !.pc = "browse", !.mode = "none"])
          /\ player' = player
       \/ /\ ui' = [ui EXCEPT !.pc = "playing", !.errorShown = FALSE]
          /\ player' = playStarted(player, IF ui.mode = "time"
                                             THEN ui.parsedTime.timestamp ELSE NoTime)
    /\ UNCHANGED <<clock, ticks, pc, expression, chronoArg, results, now, descNow, accepted,
                   path, result, cli, calls>>

(* :477-497, :520-539  the play call settles: the UI is built again; the   *)
(* channels are loaded again except after a failed live playback.          *)
UiPlayed ==
    /\ ui.pc = "playing"
    /\ player.promise \in {"resolved", "rejected"}
    /\ LET u == createMainUI([ui EXCEPT !.mode = "none"]) IN
       ui' = IF player.promise = "resolved" THEN loadChannels(u, "none")
             ELSE IF ui.mode = "time" THEN loadChannels(u, "showError")
             ELSE showError([u EXCEPT !.pc = "browse"])
    /\ player' = [player EXCEPT !.promise = "none"]
    /\ UNCHANGED <<clock, ticks, pc, expression, chronoArg, results, now, descNow, accepted,
                   path, result, cli, calls>>

NextTUI ==
    \/ UiStart
    \/ UiChannelsLoaded
    \/ UiSelectChannel
    \/ UiSelectMode
    \/ UiEscape
    \/ UiSubmitTime
    \/ UiErrorGone
    \/ UiMpvChecked
    \/ UiPlayed
    \/ (ui.pc = "playing" /\ PlayTokenResponse)
    \/ (ui.pc = "playing" /\ MpvExit)
    \/ (ui.pc = "playing" /\ HeartbeatTimer)

SpecTUI == InitTUI /\ [][NextTUI]_vars

(* The same with the keys that go to the search box.                       *)
NextBrowser ==
    \/ NextTUI
    \/ UiType
    \/ UiBackspace
    \/ UiClearSearch

SpecBrowser == InitTUI /\ [][NextBrowser]_vars

----------------------------------------------------------------------------
(* The program on either of its paths: started with command-line options   *)
(* (runCLI), or as the terminal UI (ZappingUI.start).                      *)

InitApp == InitCLI \/ InitTUI

NextApp ==
    \/ NextCLI
    \/ (ui.pc # "off" /\ NextTUI)

SpecApp == InitApp /\ [][NextApp]_vars

----------------------------------------------------------------------------
(* TimeParser called from logical threads while the program is up: runCLI  *)
(* has started the TUI, the channel list is loaded and the time prompt of  *)
(* a channel is open.  The threads' calls interleave at the clock reads.   *)

CallExprs == {<<" ">>, Noise, getExamples[1], getExamples[7], getExamples[9]}

UiAtPrompt ==
    [updateChannelList([UiConstructed EXCEPT
         !.token = SavedToken,
         !.channels = sortByNumber(Channels),
         !.filteredChannels = sortByNumber(Channels)])
     EXCEPT !.pc = "browse", !.dialog = "time", !.channel = sortByNumber(Channels)[1],
            !.selections = 1]

CliInTui ==
    [pc |-> "tui",
     options |-> [examples |-> FALSE, list |-> FALSE, channel |-> NoOpt, time |-> NoOpt],
     config |-> SavedToken,
     token |-> SavedToken,
     auth |-> AuthIdle,
     channel |-> undefined,
     resolverArg |-> NoCall,
     parsedTime |-> NoResult,
     stdout |-> <<>>,
     stderr |-> <<>>,
     exitCode |-> ExitNone]

InitCalls ==
    /\ clock \in CliClocks
    /\ ticks = 0
    /\ pc = "off"
    /\ expression = <<>>
    /\ chronoArg = NoCall
    /\ results = <<>>
    /\ now = None
    /\ descNow = None
    /\ accepted = None
    /\ path = "none"
    /\ result = NoResult
    /\ cli = CliInTui
    /\ ui = UiAtPrompt
    /\ player = PlayerIdle
    /\ calls = NoCalls

OnlyCalls ==
    UNCHANGED <<pc, expression, chronoArg, results, now, descNow, accepted, path, result,
                cli, ui, player>>

(* Time passes, an hour at a time: enough to change what a description    *)
(* says between one clock read and the next.                               *)
ThreadTickSteps == {MsPerHour}

ThreadsTick ==
    /\ ticks < MaxTicks
    /\ \E d \in ThreadTickSteps : clock' = clock + d
    /\ ticks' = ticks + 1
    /\ UNCHANGED calls
    /\ OnlyCalls

(* A thread calls one of the two public methods.  The threads are named in *)
(* the order of their calls: "a" is the one that calls first.              *)
ThreadCall(t) ==
    /\ calls[t].pc = "idle"
    /\ t = "b" => calls["a"].pc # "idle"
    /\ \E entry \in Entries, e \in CallExprs :
         \E rs \in GrammarOutputs(e, clock) :
             calls' = [calls EXCEPT ![t] = entered(entry, e, rs)]
    /\ UNCHANGED <<clock, ticks>>
    /\ OnlyCalls

ThreadReadNow(t) ==
    /\ calls[t].pc = "parsed"
    /\ calls' = [calls EXCEPT ![t] = futureChecked(@, clock)]
    /\ UNCHANGED <<clock, ticks>>
    /\ OnlyCalls

ThreadDescribe(t) ==
    /\ calls[t].pc = "describe"
    /\ calls' = [calls EXCEPT ![t] = described(@, clock)]
    /\ UNCHANGED <<clock, ticks>>
    /\ OnlyCalls

ThreadDescribeAgain(t) ==
    /\ calls[t].pc = "done"
    /\ calls[t].result.kind = "ParsedTime"
    /\ calls[t].again = NoText
    /\ calls' = [calls EXCEPT ![t] = describedAgain(@, clock)]
    /\ UNCHANGED <<clock, ticks>>
    /\ OnlyCalls

NextCalls ==
    \/ ThreadsTick
    \/ \E t \in Threads : ThreadCall(t)
    \/ \E t \in Threads : ThreadReadNow(t)
    \/ \E t \in Threads : ThreadDescribe(t)
    \/ \E t \in Threads : ThreadDescribeAgain(t)

SpecCalls == InitCalls /\ [][NextCalls]_vars

----------------------------------------------------------------------------
(* One PlayerService called again while a play call is in flight: the      *)
(* play methods of ZappingUI await checkMpvAvailable with the screen still *)
(* up (index.ts:466, :510), so a second selection can reach the same       *)
(* PlayerService before the first call has got its play token.  The        *)
(* record's stage, promise, startTime and endTime are those of the latest  *)
(* call; `earlier` holds those of the calls made before it.                *)

PlayStartTimes == {NoTime, At(14, 8, 0) \div MsPerSecond}

callOf(p) ==
    [stage |-> p.stage, promise |-> p.promise, startTime |-> p.startTime,
     endTime |-> p.endTime]

(* The continuation of the i-th earlier call runs on the same object.      *)
swapped(p, i) ==
    [p EXCEPT !.stage = p.earlier[i].stage, !.promise = p.earlier[i].promise,
              !.startTime = p.earlier[i].startTime, !.endTime = p.earlier[i].endTime,
              !.earlier[i] = callOf(p)]

(* auth.ts:177-186, :204-218  a play method is called on the object         *)
(* whatever its earlier calls are doing.                                   *)
playCalled(p, startTime) ==
    IF p.promise = "none" THEN playStarted(p, startTime)
    ELSE playStarted([p EXCEPT !.earlier = Append(@, callOf(p))], startTime)

UiBrowsing ==
    [updateChannelList([UiConstructed EXCEPT
         !.token = SavedToken,
         !.channels = sortByNumber(Channels),
         !.filteredChannels = sortByNumber(Channels)])
     EXCEPT !.pc = "browse"]

InitPlayer ==
    /\ clock \in CliClocks
    /\ ticks = 0
    /\ pc = "off"
    /\ expression = <<>>
    /\ chronoArg = NoCall
    /\ results = <<>>
    /\ now = None
    /\ descNow = None
    /\ accepted = None
    /\ path = "none"
    /\ result = NoResult
    /\ cli = CliInTui
    /\ ui = UiBrowsing
    /\ player = PlayerIdle
    /\ calls = NoCalls

PlayCall ==
    /\ Len(player.earlier) < MaxPlays - 1 \/ player.promise = "none"
    /\ \E startTime \in PlayStartTimes : player' = playCalled(player, startTime)
    /\ UNCHANGED <<clock, ticks, pc, expression, chronoArg, results, now, descNow, accepted,
                   path, result, cli, ui, calls>>

EarlierPlayTokenResponse ==
    /\ \E i \in 1..Len(player.earlier) :
        /\ player.earlier[i].stage = "awaitToken"
        /\ \/ \E t \in PlayTokens :
                  player' = swapped(playTokenReceived(swapped(player, i), t), i)
           \/ player' = swapped(playTokenFailed(swapped(player, i)), i)
    /\ UNCHANGED <<clock, ticks, pc, expression, chronoArg, results, now, descNow, accepted,
                   path, result, cli, ui, calls>>

EarlierMpvExit ==
    /\ \E i \in 1..Len(player.earlier) :
        /\ player.earlier[i].stage = "awaitMpv"
        /\ \/ player' = swapped(mpvClosed(swapped(player, i)), i)
           \/ player' = swapped(mpvFailed(swapped(player, i)), i)
    /\ UNCHANGED <<clock, ticks, pc, expression, chronoArg, results, now, descNow, accepted,
                   path, result, cli, ui, calls>>

NextPlayer ==
    \/ PlayCall
    \/ PlayTokenResponse
    \/ MpvExit
    \/ EarlierPlayTokenResponse
    \/ EarlierMpvExit
    \/ HeartbeatTimer
    \/ HeartbeatResponse

SpecPlayer == InitPlayer /\ [][NextPlayer]_vars

----------------------------------------------------------------------------
(* Properties of the resolver.                                             *)

Returned == pc = "done"
Resolved == pc = "done" /\ result.kind = "ParsedTime"
TopCandidate == results[1]

(* C1: a ParsedTime's date is never after the `now` read during that       *)
(* resolution, whether the candidate was kept or shifted one day back.     *)
C1_PastOnly ==
    Resolved => /\ path \in {"direct", "shifted"}
                /\ now # None
                /\ result.date <= now

(* A candidate exactly one day ahead is shifted onto `now` itself.         *)
C1_Witness ==
    /\ Resolved
    /\ path = "shifted"
    /\ result.date = now

(* C2: a top candidate strictly after now whose time of day on the         *)
(* previous calendar day is not after now is returned as that shifted      *)
(* instant: its date and its timestamp, not the candidate's.               *)
C2_Disambiguation ==
    (/\ Returned
     /\ now # None
     /\ TopCandidate > now
     /\ TopCandidate - MsPerDay <= now)
    => /\ result.kind = "ParsedTime"
       /\ DayOf(result.date) = DayOf(TopCandidate) - 1
       /\ TimeOfDay(result.date) = TimeOfDay(TopCandidate)
       /\ result.timestamp = (TopCandidate - MsPerDay) \div 1000
       /\ result.date # TopCandidate

C2_Witness ==
    /\ Resolved
    /\ TopCandidate > now
    /\ path = "shifted"
    /\ result.timestamp # TopCandidate \div 1000

(* C3: a top candidate that is still after now one day earlier gives null, *)
(* also when two days earlier it would have been in the past.              *)
C3_FutureRejection ==
    (/\ Returned
     /\ now # None
     /\ TopCandidate - MsPerDay > now)
    => result = null

C3_Witness ==
    /\ Returned
    /\ now # None
    /\ TopCandidate - MsPerDay > now
    /\ TopCandidate - 2 * MsPerDay <= now
    /\ result = null

(* C4: an empty or whitespace-only expression gives null and chrono.parse  *)
(* is not called for it.                                                   *)
C4_EmptyInput ==
    (Returned /\ \A i \in 1..Len(expression) : expression[i] = " ")
    => /\ result = null
       /\ chronoArg = NoCall

C4_Witness ==
    /\ Returned
    /\ expression = <<" ", " ">>
    /\ result = null

(* C5: the timestamp is the accepted instant's milliseconds divided by     *)
(* 1000 and rounded down.                                                  *)
C5_Truncation ==
    Resolved => /\ result.date = accepted
                /\ result.timestamp * 1000 <= result.date
                /\ result.date < result.timestamp * 1000 + 1000

(* An instant half a second or more past the whole second, on the shifted  *)
(* path.                                                                   *)
C5_Witness ==
    /\ Resolved
    /\ path = "shifted"
    /\ result.date % 1000 >= 500

(* C6: the call ends in a ParsedTime or in null, never in an exception.    *)
C6_TwoOutcomes ==
    /\ Returned => result.kind \in {"ParsedTime", "null"}
    /\ ~Returned => result = NoResult

(* The grammar was called and returned no candidate.                       *)
C6_Witness ==
    /\ Returned
    /\ chronoArg # NoCall
    /\ results = <<>>
    /\ result = null

(* Scenario 2 of the specification: now is Saturday 2024-06-15 12:00:00    *)
(* at both clock reads and the expression is "yesterday at 3pm".           *)
Scenario2 ==
    /\ Resolved
    /\ expression = getExamples[4]
    /\ now = ScenarioNow
    /\ descNow = ScenarioNow

IsYesterdayText(r) == r.description = <<"yesterday at ">> \o formatTime(r.date)

(* C7, as claimed: scenario 2 gives 2024-06-14T15:00:00 described as       *)
(* "yesterday at 3:00 PM", and an instant on the previous calendar day is  *)
(* always described as "yesterday at {localTime}".                         *)
C7_YesterdayAsClaimed ==
    /\ Scenario2 => /\ result.date = At(13, 15, 0)
                    /\ result.description = <<"yesterday at ", "3", ":", "0", "0", " ", "PM">>
    /\ (Resolved /\ DayOf(result.date) = DayOf(descNow) - 1) => IsYesterdayText(result)

(* C7, amended: scenario 2 gives 2024-06-14T15:00:00, 21 hours before now, *)
(* described as "21 hours ago"; the description is "yesterday at           *)
(* {localTime}" exactly when the instant lies at least 24 and less than 48 *)
(* hours before the now that generateDescription reads.                    *)
C7_Yesterday ==
    /\ Scenario2 => /\ result.date = At(13, 15, 0)
                    /\ descNow - result.date = 21 * MsPerHour
                    /\ result.description = <<"21", " hour", "s", " ago">>
    /\ Resolved => (IsYesterdayText(result)
                      <=> /\ descNow - result.date >= 24 * MsPerHour
                          /\ descNow - result.date < 48 * MsPerHour)

C7_Witness ==
    /\ Scenario2
    /\ DayOf(result.date) = DayOf(descNow) - 1
    /\ ~IsYesterdayText(result)

(* C8: every expression of the Examples Catalog resolves, whatever the day *)
(* of the week and the time of day.                                        *)
C8_ExamplesResolve ==
    (Returned /\ expression \in Catalog) => result.kind = "ParsedTime"

(* The branch of generateDescription (:74-86) a date falls into.           *)
BranchOf(parsedDate, nowRead) ==
    IF diffMinutesOf(parsedDate, nowRead) < MinutesPerHour THEN "minutes"
    ELSE IF diffHoursOf(parsedDate, nowRead) < HoursPerDay THEN "hours"
    ELSE IF diffDaysOf(parsedDate, nowRead) < DaysPerWeek THEN "days"
    ELSE "verbatim"
Branch == BranchOf(result.date, descNow)

(* A text, kept as its fragments, is the empty string.                     *)
IsEmptyText(fragments) == \A i \in 1..Len(fragments) : fragments[i] = ""

(* C14: the description of a ParsedTime is never the empty string, in the  *)
(* minutes, hours, days and verbatim branches, on the direct and on the    *)
(* shifted path.                                                           *)
C14_DescriptionNonEmpty ==
    Resolved =>
        /\ path \in {"direct", "shifted"}
        /\ Branch \in {"minutes", "hours", "days", "verbatim"}
        /\ ~IsEmptyText(result.description)
        /\ result.description[1] # ""

(* A date shifted one day back onto `now` itself: zero minutes ago.        *)
C14_Witness ==
    /\ Resolved
    /\ path = "shifted"
    /\ Branch = "minutes"
    /\ descNow = result.date
    /\ ~IsEmptyText(result.description)

(* The time between the returned date and the clock read at :67.           *)
Delta == descNow - result.date
VerbatimText(r) == expression \o <<" (">> \o formatDate(r.date) \o <<")">>

(* C17, as claimed: exactly 60 minutes reads "1 hour ago", exactly 24      *)
(* hours reads "1 day ago", exactly 7 days is the verbatim branch.         *)
C17_TieBreakAsClaimed ==
    Resolved =>
        /\ Delta = MsPerHour => result.description = <<"1", " hour", "", " ago">>
        /\ Delta = MsPerDay => /\ result.description[1] = "1"
                                /\ result.description[2] = " day"
        /\ Delta = 7 * MsPerDay => result.description = VerbatimText(result)

(* C17, amended: the thresholds are strict.  Exactly 60 minutes reads      *)
(* "1 hour ago" (one millisecond less: "59 minutes ago"); exactly 24 hours *)
(* leaves the hours branch for the days branch, where one day reads        *)
(* "yesterday at {localTime}" and never "1 day ago"; exactly 7 days is the *)
(* verbatim branch (one millisecond less: "6 days ago at {localTime}").    *)
C17_TieBreak ==
    Resolved =>
        /\ Delta = MsPerHour => result.description = <<"1", " hour", "", " ago">>
        /\ Delta = MsPerHour - 1 => result.description = <<"59", " minute", "s", " ago">>
        /\ Delta = MsPerDay =>
              /\ Branch = "days"
              /\ result.description = <<"yesterday at ">> \o formatTime(result.date)
        /\ Delta = 7 * MsPerDay =>
              /\ Branch = "verbatim"
              /\ result.description = VerbatimText(result)
        /\ Delta = 7 * MsPerDay - 1 =>
              result.description = <<"6", " day", "s", " ago at ">> \o formatTime(result.date)
        /\ ~(result.description[1] = "1" /\ result.description[2] = " day")

(* A date exactly 24 hours before the clock value read for the             *)
(* description.                                                            *)
C17_Witness ==
    /\ Resolved
    /\ Delta = MsPerDay
    /\ result.description = <<"yesterday at ", "12", ":", "0", "0", " ", "PM">>

(* The grammar was asked, and the call has returned.                       *)
GrammarAsked == Returned /\ chronoArg # NoCall
LaterInPast == \E i \in 2..Len(results) : results[i] <= now

(* C18: without candidates the result is null; with candidates the result  *)
(* is the one the first candidate gives by itself, whatever follows it: a  *)
(* first candidate still after now one day back gives null, also when a    *)
(* later candidate is in the past.                                         *)
C18_FirstCandidateOnly ==
    GrammarAsked =>
        /\ results = <<>> => result = null /\ now = None
        /\ results # <<>> =>
              /\ now # None
              /\ result = parseTimeExpression(expression, <<results[1]>>, now, descNow)
              /\ result.kind = "ParsedTime" =>
                    result.date \in {results[1], dayBeforeOf(results[1])}
              /\ dayBeforeOf(results[1]) > now => result = null

(* The first candidate is two days ahead, the second an hour back.         *)
C18_Witness ==
    /\ GrammarAsked
    /\ Len(results) = 2
    /\ results[1] = now + 2 * MsPerDay
    /\ results[2] = now - MsPerHour
    /\ LaterInPast
    /\ result = null

(* C19: when the description is generated, the clock value it reads is not *)
(* before the returned date, which was not after the `now` of :43; so the  *)
(* minutes, hours and days it counts are not negative.                     *)
C19_DeltaNotNegative ==
    Resolved =>
        /\ result.date <= now
        /\ now <= descNow
        /\ Delta >= 0
        /\ diffMinutesOf(result.date, descNow) >= 0
        /\ diffHoursOf(result.date, descNow) >= 0
        /\ diffDaysOf(result.date, descNow) >= 0
        /\ Branch = "minutes" =>
              result.description[1] = ToString(diffMinutesOf(result.date, descNow))
        /\ Branch = "hours" =>
              result.description[1] = ToString(diffHoursOf(result.date, descNow))

(* The grammar gave the very instant of its reference and no time passed:  *)
(* the delta is zero.                                                      *)
C19_Witness ==
    /\ Resolved
    /\ path = "direct"
    /\ result.date = now
    /\ descNow = now
    /\ Delta = 0
    /\ result.description[1] = "0"

deltaMinutes == diffMinutesOf(result.date, descNow)

(* C20: with fewer than 60 whole minutes between the returned date and the *)
(* clock, the description is "{deltaMinutes} minute ago" for one minute    *)
(* and "{deltaMinutes} minutes ago" for any other count, zero included.    *)
C20_MinutesBranch ==
    (Resolved /\ deltaMinutes < MinutesPerHour) =>
        /\ Branch = "minutes"
        /\ Len(result.description) = 4
        /\ result.description[1] = ToString(deltaMinutes)
        /\ result.description[2] = " minute"
        /\ (result.description[3] = "") <=> (deltaMinutes = 1)
        /\ (result.description[3] = "s") <=> (deltaMinutes # 1)
        /\ result.description[4] = " ago"
        /\ deltaMinutes = 0 => result.description = <<"0", " minute", "s", " ago">>
        /\ deltaMinutes = 1 => result.description = <<"1", " minute", "", " ago">>
        /\ deltaMinutes = 30 => result.description = <<"30", " minute", "s", " ago">>

(* One minute and a millisecond: the singular.                             *)
C20_Witness ==
    /\ Resolved
    /\ Delta = MsPerMinute + 1
    /\ deltaMinutes = 1
    /\ result.description = <<"1", " minute", "", " ago">>

deltaHours == Delta \div MsPerHour
deltaDays == Delta \div MsPerDay

(* C21: from 60 whole minutes on and with fewer than 24 whole hours, the   *)
(* description is "{deltaHours} hour ago" for one hour and "{deltaHours}   *)
(* hours ago" for any other count; an instant exactly two hours before the *)
(* clock reads "2 hours ago".                                              *)
C21_HoursBranch ==
    (Resolved /\ deltaMinutes >= MinutesPerHour /\ deltaHours < HoursPerDay) =>
        /\ deltaHours \in 1..23
        /\ result.description =
              <<ToString(deltaHours), " hour", IF deltaHours = 1 THEN "" ELSE "s", " ago">>
        /\ Delta = 2 * MsPerHour => result.description = <<"2", " hour", "s", " ago">>
        /\ deltaHours = 1 => result.description = <<"1", " hour", "", " ago">>
        /\ deltaHours = 23 => result.description = <<"23", " hour", "s", " ago">>

(* "2 hours ago" resolved at 2024-06-15 12:00:00 with no time passing      *)
(* between the clock reads: 10:00:00 of that day.                          *)
C21_Witness ==
    /\ Resolved
    /\ expression = getExamples[1]
    /\ now = ScenarioNow
    /\ now = descNow
    /\ result.date = At(14, 10, 0)
    /\ Delta = 2 * MsPerHour
    /\ result.timestamp * MsPerSecond = now - 2 * MsPerHour
    /\ result.description = <<"2", " hour", "s", " ago">>

(* The local time of an instant as formatTime writes it, by its parts.     *)
LocalTimeIs(text, hour12, minuteTens, minuteUnits, meridiem) ==
    text = <<hour12, ":", minuteTens, minuteUnits, " ", meridiem>>

(* C22: from 24 whole hours on and with fewer than 7 whole days, the       *)
(* description is "yesterday at {localTime}" for one day and "{deltaDays}  *)
(* days ago at {localTime}" for two to six days, localTime being the time  *)
(* of day of the returned date in 12-hour form.                            *)
C22_DaysBranch ==
    (Resolved /\ deltaHours >= HoursPerDay /\ deltaDays < DaysPerWeek) =>
        /\ deltaDays \in 1..6
        /\ deltaDays = 1 =>
              /\ result.description[1] = "yesterday at "
              /\ Tail(result.description) = formatTime(result.date)
        /\ deltaDays \in 2..6 =>
              /\ SubSeq(result.description, 1, 4) = <<ToString(deltaDays), " day", "s", " ago at ">>
              /\ SubSeq(result.description, 5, Len(result.description))
                    = formatTime(result.date)
        /\ TimeOfDay(result.date) = At(0, 14, 0) =>
              LocalTimeIs(SubSeq(result.description, Len(result.description) - 5,
                                 Len(result.description)), "2", "0", "0", "PM")
        /\ TimeOfDay(result.date) = At(0, 12, 0) =>
              LocalTimeIs(SubSeq(result.description, Len(result.description) - 5,
                                 Len(result.description)), "12", "0", "0", "PM")

(* "3 days ago at 2pm" asked at noon: two days and 22 hours back.          *)
C22_Witness ==
    /\ Resolved
    /\ expression = getExamples[8]
    /\ now = ScenarioNow
    /\ deltaDays = 2
    /\ result.description = <<"2", " day", "s", " ago at ", "2", ":", "0", "0", " ", "PM">>

PaddedExpression == <<" ">> \o Other \o <<" ">>

(* C23: from 7 whole days on, the description is the expression as it was  *)
(* passed in, surrounding whitespace included, followed by " (", the       *)
(* weekday, month, day and 12-hour time of the returned date, and ")"; on  *)
(* the shifted path the date written is that of the day before the         *)
(* candidate, the text still the expression.                               *)
C23_VerbatimBranch ==
    (Resolved /\ deltaDays >= DaysPerWeek) =>
        /\ result.description = expression \o <<" (">> \o formatDate(result.date) \o <<")">>
        /\ SubSeq(result.description, 1, Len(expression)) = expression
        /\ result.description[Len(expression) + 1] = " ("
        /\ result.description[Len(expression) + 2]
              = WeekdayShort[((DayOf(result.date) + 6) % 7) + 1]
        /\ result.description[Len(expression) + 6] = ToString(DayOf(result.date) + 1)
        /\ result.description[Len(result.description)] = ")"
        /\ path = "shifted" =>
              /\ result.date = TopCandidate - MsPerDay
              /\ result.date # TopCandidate
        /\ path = "direct" => result.date = TopCandidate
        /\ (expression = PaddedExpression /\ result.date = At(7, 12, 0)) =>
              result.description =
                  <<" ", "<expression>", " ", " (", "Sat", ", ", "Jun", " ", "8", ", ",
                    "12", ":", "0", "0", " ", "PM", ")">>

(* A padded expression whose candidate was shifted one day back, described *)
(* a week later.                                                           *)
C23_Witness ==
    /\ Resolved
    /\ path = "shifted"
    /\ deltaDays >= DaysPerWeek
    /\ expression = PaddedExpression
    /\ result.date = TopCandidate - MsPerDay
    /\ result.description[1] = " "
    /\ result.description[2] = "<expression>"

----------------------------------------------------------------------------
(* Properties of runCLI.                                                   *)

(* --channel named a channel of the list: the CLI is past index.ts:716.    *)
ChannelFound == cli.pc \in {"play", "ended"} /\ cli.channel # undefined
TimeFlagGiven == cli.options.time # NoOpt

(* What the resolver makes of the flag's value.                            *)
FlagNotResolved ==
    \A r \in Resolutions(cli.options.time, clock) : r.value = null

NothingPlayed ==
    /\ player.tokenRequests = 0
    /\ player.heartbeats = 0
    /\ player.spawns = 0

(* C9: with --time, the flag's value is what the resolver is given, and a  *)
(* value the resolver does not resolve ends the process with an error      *)
(* message and a non-zero exit status, without a play-token request, a     *)
(* heartbeat or a player.                                                  *)
C9_TimeFlag ==
    (ChannelFound /\ TimeFlagGiven)
    => /\ cli.resolverArg = cli.options.time
       /\ (cli.parsedTime = null \/ FlagNotResolved)
            => /\ cli.pc = "ended"
               /\ cli.exitCode # 0
               /\ cli.stderr # <<>>
               /\ NothingPlayed

(* The part of C9 that the code keeps: when parseTimeExpression was called *)
(* and returned null.                                                      *)
C9_NullExits ==
    (cli.pc # "off" /\ cli.parsedTime = null)
    => /\ cli.pc = "ended"
       /\ cli.exitCode = 1
       /\ cli.stderr # <<>>
       /\ NothingPlayed

----------------------------------------------------------------------------
(* Properties of the interactive time prompt.                              *)

(* A step in which the time dialog's 'submit' handler ran.                 *)
SubmitStep == ui'.submits = ui.submits + 1
SubmittedEmpty == IsEmpty(trim(ui'.submitted))

SubmitRule ==
    SubmitStep =>
        /\ ui'.dialog = "none"
        /\ SubmittedEmpty =>
              /\ ui'.parsedTime = NoResult
              /\ ui'.errorCount = ui.errorCount
              /\ ui'.errorShown = ui.errorShown
              /\ ui'.pc = "browse"
              /\ player' = player
        /\ (~SubmittedEmpty /\ ui'.parsedTime = null) =>
              /\ ui'.errorShown
              /\ ui'.errorCount = ui.errorCount + 1
              /\ ui'.pc = "browse"
              /\ player' = player
        /\ ui'.parsedTime.kind = "ParsedTime" =>
              /\ ~SubmittedEmpty
              /\ ui'.errorCount = ui.errorCount
              /\ ui'.pc = "checkMpv"
              /\ ui'.mode = "time"
              /\ player' = player

PlayRule ==
    (ui.pc = "checkMpv" /\ ui.mode = "time" /\ ui'.pc # "checkMpv") =>
        \/ /\ ui'.pc = "playing"
           /\ player'.tokenRequests = player.tokenRequests + 1
           /\ player'.startTime = ui.parsedTime.timestamp
           /\ player'.startTime * 1000 <= ui.parsedTime.date
        \/ /\ ui'.pc = "browse"
           /\ ui'.errorCount = ui.errorCount + 1
           /\ player' = player

----------------------------------------------------------------------------
(* Properties of the playback request.                                     *)

(* A playChannelAtTime call of PlayerService is running, and the           *)
(* ParsedTime its caller (runCLI :720-728, ZappingUI :432-475) resolved    *)
(* for it.                                                                 *)
PlayingAtTime ==
    /\ player.stage \in {"awaitToken", "awaitMpv"}
    /\ \/ cli.pc = "play" /\ cli.parsedTime.kind = "ParsedTime"
       \/ ui.pc = "playing" /\ ui.mode = "time"
JustResolved == IF cli.pc = "play" THEN cli.parsedTime ELSE ui.parsedTime
UrlBuilt == player.stage = "awaitMpv"

----------------------------------------------------------------------------
(* Properties of the --examples action.                                    *)

ExamplesDone == cli.pc = "ended" /\ cli.options.examples

(* Nothing but the printing happened: no token was loaded or requested, no *)
(* channel list, no resolver call, no PlayerService, no TUI, no complaint. *)
OnlyPrinted ==
    /\ cli.exitCode = 0
    /\ cli.stderr = <<>>
    /\ cli.token = NoToken
    /\ cli.channel = undefined
    /\ cli.resolverArg = NoCall
    /\ cli.config \in {NoFile, <<>>, SavedToken}
    /\ player = [stage |-> "off"]
    /\ ui = [pc |-> "off"]

(* C12, as claimed: what --examples prints is exactly the ten catalog      *)
(* strings, one per line.                                                  *)
C12_ExamplesAsClaimed ==
    ExamplesDone => /\ cli.stdout = getExamples
                    /\ OnlyPrinted

(* C12, amended: --examples prints the heading "Supported time             *)
(* expressions:" and then ten lines, line i being the list marker "  - "   *)
(* followed by the i-th catalog string verbatim; it then returns, whatever *)
(* the other options, without a token, a channel list, a resolver call, a  *)
(* player or the TUI.  getExamples is one fixed sequence of ten strings.   *)
C12_Examples ==
    /\ Len(getExamples) = 10
    /\ getExamples[1] = <<"2", " ", "hours", " ", "ago">>
    /\ getExamples[7] = <<"tuesday", " ", "at", " ", "noon">>
    /\ getExamples[10] = <<"last", " ", "night", " ", "at", " ", "10pm">>
    /\ ExamplesDone =>
          /\ Len(cli.stdout) = 11
          /\ cli.stdout[1] = <<"Supported time expressions:">>
          /\ \A i \in 1..10 : cli.stdout[i + 1] = <<"  - ">> \o getExamples[i]
          /\ cli.stdout[8] = <<"  - ", "tuesday", " ", "at", " ", "noon">>
          /\ OnlyPrinted

(* --examples given together with --channel and --time.                    *)
C12_Witness ==
    /\ ExamplesDone
    /\ cli.options.channel = <<"1", "3">>
    /\ cli.options.time = getExamples[1]
    /\ cli.config = NoFile
    /\ Len(cli.stdout) = 11

----------------------------------------------------------------------------
(* Properties of TimeParser's calls from logical threads.                  *)

(* What parseTimeExpression gives for a frame's expression, grammar output *)
(* and clock reads when it runs alone.                                     *)
Alone(c) == parseTimeExpression(c.expression, c.results, c.now, c.descNow)

(* Thread t took a step of its call; nothing outside its frame changed.    *)
StepOf(t) == calls'[t] # calls[t]
OwnFrameOnly(t) ==
    /\ \A u \in Threads \ {t} : calls'[u] = calls[u]
    /\ cli' = cli
    /\ ui' = ui
    /\ player' = player
    /\ ui'.token = SavedToken
    /\ cli'.config = SavedToken
    /\ Len(ui'.channels) = 2

(* C13: validateTimeExpression returns true exactly when                   *)
(* parseTimeExpression, for the same expression and the same clock reads,  *)
(* does not return null, and no step of it changes anything but its own    *)
(* frame.                                                                  *)
C13_IsResolvable ==
    [][\A t \in Threads :
          (StepOf(t) /\ calls'[t].entry = "validateTimeExpression") =>
              /\ OwnFrameOnly(t)
              /\ calls'[t].pc = "done" =>
                    /\ calls'[t].returned.kind = "boolean"
                    /\ calls'[t].returned.value <=> Alone(calls'[t]).kind = "ParsedTime"
                    /\ ~calls'[t].returned.value <=> Alone(calls'[t]) = null]_vars

(* One thread validated "this morning at 8am" (true), the other "tuesday   *)
(* at noon" (false: still in the future one day back).                     *)
C13_Witness ==
    /\ calls["a"].pc = "done"
    /\ calls["a"].entry = "validateTimeExpression"
    /\ calls["a"].expression = getExamples[9]
    /\ calls["a"].returned = Boolean(TRUE)
    /\ calls["b"].pc = "done"
    /\ calls["b"].entry = "validateTimeExpression"
    /\ calls["b"].expression = getExamples[7]
    /\ calls["b"].now # None
    /\ calls["b"].returned = Boolean(FALSE)

(* C15: a call of parseTimeExpression or validateTimeExpression changes    *)
(* nothing but its own frame (not the token, the config file, the          *)
(* channels, the player, the UI, nor another call's frame), and however    *)
(* the calls of the threads interleave, each returns what                  *)
(* parseTimeExpression gives alone for its expression, grammar output and  *)
(* clock reads.                                                            *)
C15_NoSideEffects ==
    [][\A t \in Threads :
          StepOf(t) =>
              /\ OwnFrameOnly(t)
              /\ calls'[t].expression \in {calls[t].expression, <<>>} \cup CallExprs
              /\ calls'[t].pc = "done" => calls'[t].result = Alone(calls'[t])]_vars

(* Thread b made its whole call between the two clock reads of thread a,   *)
(* and both resolved.                                                      *)
C15_Witness ==
    /\ calls["a"].pc = "done"
    /\ calls["b"].pc = "done"
    /\ calls["a"].result.kind = "ParsedTime"
    /\ calls["b"].result.kind = "ParsedTime"
    /\ calls["a"].expression # calls["b"].expression
    /\ calls["a"].now < calls["b"].now
    /\ calls["b"].descNow < calls["a"].descNow
    /\ ui = UiAtPrompt
    /\ cli = CliInTui
    /\ player = PlayerIdle

(* Calls that produced a description.                                      *)
Described(c) == c.pc = "done" /\ c.result.kind = "ParsedTime"
DescribedTwice(c) == Described(c) /\ c.again # NoText

----------------------------------------------------------------------------
(* Properties of PlayerService.                                            *)

Settled == {"resolved", "rejected"}
AllPromises ==
    {player.promise} \cup {player.earlier[i].promise : i \in 1..Len(player.earlier)}
AllSettled == AllPromises \subseteq Settled

(* C24: on one PlayerService, however play calls, play-token responses,    *)
(* mpv 'close' and 'error' events and cleanup interleave, at most one      *)
(* heartbeat timer is running at any time, and once every started play     *)
(* call has settled no heartbeat timer is running and playToken is null.   *)
C24_OneHeartbeatTimer ==
    /\ player.timers <= 1
    /\ AllSettled => (player.timers = 0 /\ player.playToken = NoToken)

(* The same for a PlayerService whose play calls follow one another.       *)
C24_OneCallAtATime ==
    player.stage \in {"idle", "awaitToken", "awaitMpv"}
    => /\ player.timers <= 1
       /\ player.stage = "idle" => (player.timers = 0 /\ player.playToken = NoToken)

----------------------------------------------------------------------------
(* Properties of the channel browser.                                      *)

RowsOf(chs) == [i \in 1..Len(chs) |-> rowOf(chs[i])]
Browsing == ui.pc = "browse"

(* C25: in the TUI, after any sequence of key presses, channel loads and   *)
(* playbacks (also one that fails), the rows of the channel list are the   *)
(* rows of filteredChannels, position by position, and the playback-mode   *)
(* dialog opened from a row is for the channel that row shows.             *)
C25_RowsMatchChannels ==
    Browsing
    => /\ ui.items = RowsOf(ui.filteredChannels)
       /\ ui.dialog = "mode"
            => \E i \in 1..Len(ui.items) : ui.items[i] = rowOf(ui.channel)

(* What the code keeps: the rows shown are rows of filteredChannels, and   *)
(* the dialog opened from a row is for that row's channel.                 *)
C25_RowsShownMatch ==
    Browsing
    => /\ \A i \in 1..Len(ui.items) :
            i <= Len(ui.filteredChannels) /\ ui.items[i] = rowOf(ui.filteredChannels[i])
       /\ ui.dialog = "mode"
            => \E i \in 1..Len(ui.items) : ui.items[i] = rowOf(ui.channel)

(* The channels the search text selects, in ascending number order.        *)
Matching(text) ==
    LET term == trim(toLowerCase(text))
    IN  {ui.channels[i] : i \in {j \in 1..Len(ui.channels) :
            \/ term = <<>>
            \/ includes(toLowerCase(ui.channels[j].name), term)
            \/ includes(toStringOf(ui.channels[j].number), term)}}

SearchBoxShown == ui.pc \in {"loading", "browse", "checkMpv"}
FilterMatchesSearch == ui.filteredChannels = sortByNumber(Matching(ui.search))

(* C26: in the TUI, filteredChannels always is the channels, in ascending  *)
(* number order, whose lower-cased name or number contains the search      *)
(* box's lower-cased trimmed text (all channels when it is empty), also    *)
(* when characters are typed while loadChannels awaits the channel list.   *)
C26_FilterMatchesSearch == SearchBoxShown => FilterMatchesSearch

(* What the code keeps: the filter matches the search text right after a   *)
(* key that changes it.                                                    *)
C26_FilterAfterKey ==
    [][(ui'.search # ui.search /\ ui'.pc = ui.pc) => FilterMatchesSearch']_vars

----------------------------------------------------------------------------
(* Properties of AuthService.authenticate and of startup.                  *)

AuthEntered == cli.auth.pc # "idle"
LinkedWithToken == cli.auth.linked.status = "true" /\ Truthy(cli.auth.linked.token)
ConfigWritten == cli.auth.saved # <<>>
AuthFailing == cli.auth.pc = "awaitKey" \/ cli.auth.outcome = "thrown"

CliStarted == cli.pc \in {"channels", "play", "tui", "ended"} /\ ~cli.options.examples
UiStarted == ui.pc \in {"loading", "browse", "checkMpv", "playing", "initError"}

CliErrorShown == cli.pc = "ended" /\ cli.exitCode # 0 /\ cli.stderr # <<>>
UiErrorShown == ui.pc = "initError"

(* C28: startup in TUI and in CLI mode ends with the channel list          *)
(* requested with a non-empty token, or with an error shown to the user    *)
(* (the error box, or 'Authentication failed' and a non-zero exit); a      *)
(* config file that exists but is empty or unreadable never gives a        *)
(* channel browser that is silently empty.                                 *)
C28_StartupOutcome ==
    /\ (cli.pc # "off" /\ CliStarted) => (Truthy(cli.token) \/ CliErrorShown)
    /\ (ui.pc # "off" /\ UiStarted) => (Truthy(ui.token) \/ UiErrorShown)

(* What the code keeps: runCLI's half.                                     *)
C28_CliStartup ==
    (cli.pc # "off" /\ CliStarted) => (Truthy(cli.token) \/ CliErrorShown)

----------------------------------------------------------------------------
(* Properties of one play call.                                            *)

Happened(e) == \E k \in 1..Len(player.events) : player.events[k] = e
Before(e, f) ==
    \A k \in 1..Len(player.events) :
        player.events[k] = f => \E j \in 1..(k - 1) : player.events[j] = e
PlayerUp == player.stage # "off"

(* The rejected promise is with the caller: still to be taken, or taken    *)
(* by runCLI's catch (index.ts:741-745) or ZappingUI's (:485-497,          *)
(* :529-539).                                                              *)
ErrorWithCaller ==
    \/ player.promise = "rejected"
    \/ /\ player.promise = "none"
       /\ IF cli.pc # "off" THEN CliErrorShown
          ELSE ui.errorCount > 0 \/ ui.afterLoad = "showError"

(* C29: in playChannel and playChannelAtTime the play token is obtained    *)
(* before the first heartbeat is sent and before mpv is spawned, and the   *)
(* first heartbeat is issued before mpv is spawned; when obtaining the     *)
(* play token fails no heartbeat is sent, no mpv is spawned and the error  *)
(* reaches the caller.                                                     *)
C29_PlayOrder ==
    PlayerUp
    => /\ Before("token", "heartbeat")
       /\ Before("token", "spawn")
       /\ Before("heartbeat", "spawn")
       /\ Happened("tokenFailed")
            => /\ ~Happened("heartbeat")
               /\ ~Happened("spawn")
               /\ ErrorWithCaller

(* What the code keeps: the same, with the heartbeat before mpv only for   *)
(* a play token that is not empty.                                         *)
C29_PlayOrderWithToken ==
    PlayerUp
    => /\ Before("token", "heartbeat")
       /\ Before("token", "spawn")
       /\ Truthy(player.playToken) => Before("heartbeat", "spawn")
       /\ (Happened("spawn") /\ ~Happened("heartbeat")) => player.url.token = <<>>
       /\ Happened("tokenFailed")
            => /\ ~Happened("heartbeat")
               /\ ~Happened("spawn")
               /\ ErrorWithCaller

(* A step in which a heartbeat request failed (auth.ts:289-291).           *)
HeartbeatFailedStep ==
    /\ PlayerUp
    /\ player'.events = Append(player.events, "heartbeatFailed")

PlaybackUntouched ==
    /\ player'.heartbeatInterval = player.heartbeatInterval
    /\ player'.timers = player.timers
    /\ player'.mpvProcess = player.mpvProcess
    /\ player'.playToken = player.playToken
    /\ player'.promise = player.promise
    /\ player'.stage = player.stage
    /\ player'.heartbeats = player.heartbeats

(* The interval fires while the timer is held: a heartbeat is sent.        *)
TimerSends(p) == p.heartbeatInterval /\ p.timers = 1 /\ Truthy(p.playToken)

(* C30: a failed heartbeat request never ends playback: it does not stop   *)
(* the heartbeat timer, kill mpv, clear the play token or reject the       *)
(* playback promise, and heartbeats go on being sent at each interval      *)
(* until cleanup runs.                                                     *)
C30_HeartbeatFailure ==
    [][HeartbeatFailedStep
        => /\ PlaybackUntouched
           /\ TimerSends(player) => TimerSends(player')]_vars

(* A heartbeat failed during playback and the next interval sent another.  *)
C30_Witness ==
    /\ PlayerUp
    /\ player.events = <<"call", "token", "heartbeat", "spawn", "heartbeatFailed", "heartbeat">>
    /\ player.stage = "awaitMpv"
    /\ player.promise = "pending"
    /\ player.heartbeatInterval
    /\ player.mpvProcess
    /\ Truthy(player.playToken)

====
